---- MODULE Spec2Model ----
(***************************************************************************)
(* Message routing and ticket lifecycle of the ADNSU IT support bot        *)
(* (src/bot.js, class ADNSUITBot).                                         *)
(*                                                                         *)
(* Strings of the program are sequences of one-character strings, so that  *)
(* trim, split, startsWith, parseInt and the room checks are computed as   *)
(* the JavaScript computes them.  A null is the one-element sequence Null, *)
(* which no string of characters equals.                                   *)
(***************************************************************************)
EXTENDS Integers, Sequences, FiniteSets, TLC

\* ------------------------------------------------------------------------
\* Bounds of the model
\* ------------------------------------------------------------------------
\* the clock runs 0 .. MaxNow ticks of TickMs milliseconds
MaxNow == 3
\* handlers that may be suspended at an await at the same time
MaxHandlers == 2
\* inbound messages of one behaviour of the conversation specification
MaxWizardMsgs == 4
\* inbound messages of one behaviour of the rate-limit specification
MaxRateMsgs == 5
\* inbound messages of one behaviour of the restart specification
MaxRestartMsgs == 8
\* inbound messages of one behaviour of the lifecycle specification
MaxLifeMsgs == 3
\* inbound messages of one behaviour of the ban specification
MaxBanMsgs == 5
\* inbound messages of one behaviour of the login specification
MaxLoginMsgs == 9
\* rows the tickets table holds when a lifecycle behaviour starts
InitTickets == 2
\* inbound messages of one behaviour of the spam specification
MaxSpamMsgs == 12
\* inbound messages of one behaviour of the interception specification
MaxInterceptMsgs == 6
\* inbound messages of one behaviour of the notification specification
MaxNotifyMsgs == 3
\* inbound messages of one behaviour of the registry specification
MaxRegistryMsgs == 6
\* inbound messages of one behaviour of the admin-command specification
MaxAdminMsgs == 5
\* inbound messages of one behaviour of the interleaving specification
MaxRaceMsgs == 3
\* inbound messages of one behaviour of the routing specification
MaxRouteMsgs == 4
\* inbound messages of one behaviour of the room specification
MaxRoomMsgs == 3
\* inbound messages of one behaviour of the failure specification
MaxErrorMsgs == 5
\* inbound messages of one behaviour of the group-command specification
MaxGroupMsgs == 4
\* inbound messages of one behaviour of the assignment specification
MaxAssignMsgs == 3
\* inbound messages of one behaviour of the unban specification
MaxUnbanMsgs == 4

\* ------------------------------------------------------------------------
\* Strings
\* ------------------------------------------------------------------------
Null == <<"NULL">>
NaN == -1
NoTime == -1

Digits == {"0", "1", "2", "3", "4", "5", "6", "7", "8", "9"}

DigitVal(c) ==
    CASE c = "0" -> 0 [] c = "1" -> 1 [] c = "2" -> 2 [] c = "3" -> 3
      [] c = "4" -> 4 [] c = "5" -> 5 [] c = "6" -> 6 [] c = "7" -> 7
      [] c = "8" -> 8 [] c = "9" -> 9 [] OTHER -> 0

isSpace(c) == c = " "

\* String.prototype.toUpperCase, on the letters the model's inputs use
upperChar(c) ==
    CASE c = "a" -> "A" [] c = "b" -> "B" [] c = "c" -> "C" [] c = "d" -> "D"
      [] c = "e" -> "E" [] c = "f" -> "F" [] c = "s" -> "S" [] c = "l" -> "L"
      [] c = "m" -> "M" [] OTHER -> c

toUpperCase(s) == [i \in 1..Len(s) |-> upperChar(s[i])]

lowerChar(c) ==
    CASE c = "A" -> "a" [] c = "B" -> "b" [] c = "C" -> "c" [] c = "D" -> "d"
      [] c = "E" -> "e" [] c = "F" -> "f" [] c = "S" -> "s" [] c = "L" -> "l"
      [] c = "M" -> "m" [] OTHER -> c

toLowerCase(s) == [i \in 1..Len(s) |-> lowerChar(s[i])]

RECURSIVE trimStart(_)
trimStart(s) ==
    IF s # <<>> /\ isSpace(Head(s)) THEN trimStart(Tail(s)) ELSE s

RECURSIVE trimEnd(_)
trimEnd(s) ==
    IF s # <<>> /\ isSpace(s[Len(s)]) THEN trimEnd(SubSeq(s, 1, Len(s) - 1)) ELSE s

\* String.prototype.trim
trim(s) == trimEnd(trimStart(s))

startsWith(s, p) == Len(s) >= Len(p) /\ SubSeq(s, 1, Len(p)) = p

endsWith(s, p) == Len(s) >= Len(p) /\ SubSeq(s, Len(s) - Len(p) + 1, Len(s)) = p

includes(s, p) == \E i \in 1..(Len(s) + 1) : startsWith(SubSeq(s, i, Len(s)), p)

\* The length of the run of digits at the start of s
RECURSIVE digitRun(_)
digitRun(s) ==
    IF s # <<>> /\ Head(s) \in Digits THEN 1 + digitRun(Tail(s)) ELSE 0

RECURSIVE decimal(_)
decimal(s) ==
    IF s = <<>> THEN 0 ELSE 10 * decimal(SubSeq(s, 1, Len(s) - 1)) + DigitVal(s[Len(s)])

\* parseInt(s, 10): leading white space skipped, then the leading digits; NaN
\* when there are none (the inputs of the model carry no sign)
parseInt(s) ==
    LET t == trimStart(s)
        n == digitRun(t)
    IN IF n = 0 THEN NaN ELSE decimal(SubSeq(t, 1, n))

\* s.split(' '): the pieces between single spaces, empty pieces kept
RECURSIVE split(_)
split(s) ==
    IF \A i \in 1..Len(s) : s[i] # " " THEN <<s>>
    ELSE LET k == CHOOSE i \in 1..Len(s) :
                     s[i] = " " /\ \A j \in 1..(i - 1) : s[j] # " "
         IN <<SubSeq(s, 1, k - 1)>> \o split(SubSeq(s, k + 1, Len(s)))

\* parts.slice(2).join(' ')
RECURSIVE joinFrom(_, _)
joinFrom(parts, k) ==
    IF k > Len(parts) THEN <<>>
    ELSE IF k = Len(parts) THEN parts[k]
    ELSE parts[k] \o <<" ">> \o joinFrom(parts, k + 1)

\* s.match(/\d+/g): the maximal runs of digits of s, as numbers
RECURSIVE digitRuns(_)
digitRuns(s) ==
    IF s = <<>> THEN <<>>
    ELSE IF Head(s) \in Digits
         THEN LET n == digitRun(s)
              IN <<decimal(SubSeq(s, 1, n))>> \o digitRuns(SubSeq(s, n + 1, Len(s)))
         ELSE digitRuns(Tail(s))

\* ------------------------------------------------------------------------
\* Maps (JavaScript Map and plain-object dictionaries)
\* ------------------------------------------------------------------------
Has(m, k) == k \in DOMAIN m
Put(m, k, v) == [x \in (DOMAIN m) \cup {k} |-> IF x = k THEN v ELSE m[x]]
Del(m, k) == [x \in (DOMAIN m) \ {k} |-> m[x]]
EmptyMap == [x \in {} |-> 0]

\* ------------------------------------------------------------------------
\* Addresses, identities and message texts
\* ------------------------------------------------------------------------
CUs == <<"@", "c", ".", "u", "s">>
GUs == <<"@", "g", ".", "u", "s">>

\* two requesters and two technicians, by their digits
U1 == <<"5", "1">>
U2 == <<"5", "2">>
A1 == <<"6", "1">>
A2 == <<"6", "2">>
\* the address of a one-to-one chat with the contact of these digits
Priv(d) == d \o CUs
\* the group chat the technicians work in
GroupId == <<"9", "0">> \o GUs

T_start == <<"/", "s", "t", "a", "r", "t">>
T_stop == <<"/", "s", "t", "o", "p">>
T_salam == <<"s", "a", "l", "a", "m">>
T_login == <<"/", "l", "o", "g", "i", "n">>
T_logout == <<"/", "l", "o", "g", "o", "u", "t">>
T_ban == <<"/", "b", "a", "n">>
T_unban == <<"/", "u", "n", "b", "a", "n">>
T_listban == <<"/", "l", "i", "s", "t", "b", "a", "n">>
T_admin == <<"/", "a", "d", "m", "i", "n">>
T_export == <<"/", "e", "x", "p", "o", "r", "t">>
T_logexport == <<"/", "l", "o", "g", "e", "x", "p", "o", "r", "t">>
T_databaseexport ==
    <<"/", "d", "a", "t", "a", "b", "a", "s", "e", "e", "x", "p", "o", "r", "t">>
T_solved == <<"/", "s", "o", "l", "v", "e", "d">>
T_long == <<"/", "l", "o", "n", "g">>
T_list == <<"l", "i", "s", "t">>
T_unsolved == <<"/", "u", "n", "s", "o", "l", "v", "e", "d">>
T_assign == <<"/", "a", "s", "s", "i", "g", "n">>
T_noassign == <<"/", "n", "o", "a", "s", "s", "i", "g", "n">>
Slash == <<"/">>
Sp == <<" ">>

\* configManager.get('adminCredentials'): the configured credential pair
adminCredentials == [username |-> <<"a", "d", "m">>, password |-> <<"p", "w">>]
\* configManager.get('traineeGroupId'): the escalation channel
traineeGroupId == GroupId

\* this.problemTypesExtended: the label of catalog entry k is <<"P", k>>
problemTypesExtended ==
    [k \in {<<"1">>, <<"2">>, <<"3">>, <<"4">>, <<"5">>, <<"6">>, <<"7">>, <<"8">>,
            <<"9">>, <<"1", "0">>, <<"1", "1">>, <<"1", "2">>, <<"1", "3">>,
            <<"1", "4">>, <<"1", "5">>, <<"1", "6">>} |-> <<"P">> \o k]

\* message._data.notifyName of a sender
notifyName(d) == <<"n">> \o d

\* An inbound message event of the channel
Msg(from, author, body) ==
    [from |-> from, author |-> author, body |-> body, fromMe |-> FALSE, hasMedia |-> "none"]
PrivMsg(d, body) == Msg(Priv(d), Priv(d), body)
GroupMsg(d, body) == Msg(GroupId, Priv(d), body)

\* ------------------------------------------------------------------------
\* State
\* ------------------------------------------------------------------------
VARIABLES
    now,                  \* Date.now(), in ticks of TickMs
    banned,               \* dataManager: the Ban Registry
    admins,               \* dataManager: the persistent admin allow-list
    adminSessions,        \* this.adminSessions
    adminLoginState,      \* this.adminLoginState
    failedLoginAttempts,  \* this.failedLoginAttempts
    userStates,           \* this.userStates
    messageSpam,          \* this.messageSpam
    userTickets,          \* rateLimiter.userTickets
    tickets,              \* the tickets table, row i has id i
    handlers,             \* the handlers suspended at an await
    out,                  \* the replies and notifications sent by the last step
    last,                 \* the last step: the message handled or the handler resumed
    nmsgs,                \* history: inbound messages so far
    failCount,            \* history: failed password replies since the last successful login
    wiz,                  \* history: per sender, how far a run /start, c, r, k has come
    recent,               \* history: per observed sender, the private arrivals of the last 60 seconds
    bannedUsersTable,     \* the rows of table banned_users that loadDatabase has still to migrate
    ticketErrors          \* history: per sender, the processing failures of its current conversation

progVars == <<banned, admins, adminSessions, adminLoginState, failedLoginAttempts,
              userStates, messageSpam, userTickets, tickets, handlers>>
vars == <<now, banned, admins, adminSessions, adminLoginState, failedLoginAttempts,
          userStates, messageSpam, userTickets, tickets, handlers, out, last,
          nmsgs, failCount, wiz, recent, bannedUsersTable, ticketErrors>>

\* one tick of the model's clock, in milliseconds
TickMs == 60000 \div 2
nowMs == now * TickMs

\* The program state as one record, which the handlers below map to the next one
St ==
    [banned |-> banned, admins |-> admins, adminSessions |-> adminSessions,
     adminLoginState |-> adminLoginState, failedLoginAttempts |-> failedLoginAttempts,
     userStates |-> userStates, messageSpam |-> messageSpam, userTickets |-> userTickets,
     tickets |-> tickets, handlers |-> handlers, out |-> <<>>, now |-> nowMs]

\* message.reply / sendQuickReply / client.sendMessage: one outbound text
Reply(s, to, kind, ref) ==
    [s EXCEPT !.out = Append(@, [to |-> to, kind |-> kind, ref |-> ref])]

\* ------------------------------------------------------------------------
\* Collaborators outside src/: PhoneNormalizer, DataManager, RateLimiter
\* ------------------------------------------------------------------------
\* phoneNormalizer.normalize: the channel suffix and a leading "+" removed; the
\* digits, or Null when what is left is not a run of digits
normalize(raw) ==
    LET at == IF \E i \in 1..Len(raw) : raw[i] = "@"
              THEN (CHOOSE i \in 1..Len(raw) : raw[i] = "@" /\ \A j \in 1..(i-1) : raw[j] # "@") - 1
              ELSE Len(raw)
        a == trim(SubSeq(raw, 1, at))
        b == IF a # <<>> /\ Head(a) = "+" THEN Tail(a) ELSE a
    IN IF b # <<>> /\ digitRun(b) = Len(b) THEN b ELSE Null

\* phoneNormalizer.extractSenderId: the author of a group message, the chat
\* address of a one-to-one message
extractSenderId(message, isGroup) == IF isGroup THEN message.author ELSE message.from

\* dataManager.isBanned / banUser / unbanUser
isBanned(s, id) == id \in s.banned
banUser(s, id) == [s EXCEPT !.banned = @ \cup {id}]
unbanUser(s, id) == [s EXCEPT !.banned = @ \ {id}]

\* dataManager.isAdmin / addAdmin: the allow-list holds addresses with or without
\* the channel suffix
isAdmin(s, id) == \E a \in s.admins : normalize(a) = normalize(id)
addAdmin(s, id) == [s EXCEPT !.admins = @ \cup {id}]

\* rateLimiter.limits: period length in ms and maximum, per period
MinuteMs == 60000
HourMs == 3600000
DayMs == 86400000
MinuteMax == 1
HourMax == 5
DayMax == 20
Periods == <<"minute", "hour", "day">>
periodMs(p) == CASE p = "minute" -> MinuteMs [] p = "hour" -> HourMs [] OTHER -> DayMs
periodMax(p) == CASE p = "minute" -> MinuteMax [] p = "hour" -> HourMax [] OTHER -> DayMax

\* a window has elapsed when now - windowStart > periodLengthMs
windowElapsed(w, p, t) == t - w.start > periodMs(p)

\* rateLimiter.canCreateTicket: the first period, in the order minute, hour, day,
\* whose window is running and full
canCreateTicket(s, key) ==
    LET full(p) == /\ Has(s.userTickets, key)
                   /\ ~windowElapsed(s.userTickets[key][p], p, s.now)
                   /\ s.userTickets[key][p].count >= periodMax(p)
        hit == {i \in 1..3 : full(Periods[i])}
    IN IF hit = {} THEN [allowed |-> TRUE, period |-> "none", remainingTime |-> 0,
                         currentCount |-> 0, maxLimit |-> 0]
       ELSE LET i == CHOOSE x \in hit : \A y \in hit : x <= y
                p == Periods[i]
                w == s.userTickets[key][p]
            IN [allowed |-> FALSE, period |-> p,
                remainingTime |-> w.start + periodMs(p) - s.now,
                currentCount |-> w.count, maxLimit |-> periodMax(p)]

\* rateLimiter.recordTicketCreation: one creation committed to all three counters
recordTicketCreation(s, key) ==
    LET fresh == [count |-> 1, start |-> s.now]
        bump(p) == IF ~Has(s.userTickets, key) \/ windowElapsed(s.userTickets[key][p], p, s.now)
                   THEN fresh
                   ELSE [s.userTickets[key][p] EXCEPT !.count = @ + 1]
    IN [s EXCEPT !.userTickets =
            Put(@, key, [p \in {"minute", "hour", "day"} |-> bump(p)])]

\* ------------------------------------------------------------------------
\* Suspended handlers
\* ------------------------------------------------------------------------
NoUS == [step |-> 0, username |-> Null, userPhone |-> Null, corpus |-> Null,
         room |-> Null, problemType |-> Null, attempts |-> 0]

\* a free slot
Idle == [pc |-> "idle", from |-> Null, admin |-> Null, name |-> Null, id |-> NaN,
         text |-> Null, at |-> NoTime, us |-> NoUS]

HandlerIds == 1..MaxHandlers
FreeSlots(s) == {h \in HandlerIds : s.handlers[h].pc = "idle"}
CanSuspend(s) == FreeSlots(s) # {}

\* the handler reaches its first storage await: it is parked in the lowest free slot
Suspend(s, h) ==
    LET slot == CHOOSE x \in FreeSlots(s) : \A y \in FreeSlots(s) : x <= y
    IN [s EXCEPT !.handlers[slot] = h]

\* ------------------------------------------------------------------------
\* Ticket Conversation Engine
\* ------------------------------------------------------------------------
\* startNewTicket without the rate-limit check
startNewTicketUnlimited(s, message) ==
    LET userPhone == message.from
        userState == [NoUS EXCEPT !.step = 1, !.username = notifyName(normalize(message.author)),
                                  !.userPhone = userPhone]
    IN IF isBanned(s, normalize(userPhone)) THEN s
       ELSE Reply([s EXCEPT !.userStates = Put(@, userPhone, userState)],
                  message.from, "welcome", 0)

startNewTicket(s, message) ==
    LET userPhone == message.from
        normalizedPhone == normalize(userPhone)
        limitCheck == canCreateTicket(s, userPhone)
        userState == [NoUS EXCEPT !.step = 1, !.username = notifyName(normalize(message.author)),
                                  !.userPhone = userPhone]
    IN IF isBanned(s, normalizedPhone) THEN s
       ELSE IF ~limitCheck.allowed
            THEN Reply(s, message.from,
                       CASE limitCheck.period = "minute" -> "rate_minute"
                         [] limitCheck.period = "hour" -> "rate_hour"
                         [] OTHER -> "rate_day",
                       IF limitCheck.period \in {"minute", "hour"}
                       THEN limitCheck.remainingTime ELSE NoTime)
       ELSE Reply([s EXCEPT !.userStates = Put(@, userPhone, userState)],
                  message.from, "welcome", 0)

handleStep1(s, message, userState) ==
    IF message.body \notin {<<"1">>, <<"2">>}
    THEN Reply(s, message.from, "corpus_invalid", 0)
    ELSE Reply([s EXCEPT !.userStates[userState.userPhone].corpus = message.body,
                         !.userStates[userState.userPhone].step = 2],
               message.from, "ask_room", 0)

\* a range check that lets every main number pass
roomRangeAny(corpus, mainNumber) == TRUE

\* the main-number range of a corpus
roomRangeOk(corpus, mainNumber) ==
    IF corpus = <<"1">> THEN ~(mainNumber < 101 \/ mainNumber > 543)
    ELSE IF corpus = <<"2">> THEN ~(mainNumber < 1101 \/ mainNumber > 1644)
    ELSE TRUE

\* a character test that forbids nothing
hasForbiddenCharNever(rest) == FALSE

\* /[^A-E0-9\s]/.test(rest)
hasForbiddenChar(rest) ==
    \E i \in 1..Len(rest) : rest[i] \notin ({"A", "B", "C", "D", "E", " "} \cup Digits)

\* the verdict of handleStep2 on a room text: "ok" or the re-prompt it sends
roomVerdict(corpus, body) ==
    LET roomNumber == toUpperCase(trim(body))
        n == digitRun(roomNumber)
        mainNumber == decimal(SubSeq(roomNumber, 1, n))
        restOfString == trim(SubSeq(roomNumber, n + 1, Len(roomNumber)))
        numbersInRest == digitRuns(restOfString)
    IN IF Len(roomNumber) > 10 THEN "room_too_long"
       ELSE IF n = 0 THEN "room_no_digit"
       ELSE IF ~roomRangeOk(corpus, mainNumber) THEN "room_out_of_range"
       ELSE IF hasForbiddenChar(restOfString) THEN "room_bad_char"
       ELSE IF \E i \in 1..Len(numbersInRest) :
                   numbersInRest[i] < 1 \/ numbersInRest[i] > 13 THEN "room_bad_cabinet"
       ELSE "ok"

handleStep2(s, message, userState) ==
    LET roomNumber == toUpperCase(trim(message.body))
        verdict == roomVerdict(userState.corpus, message.body)
    IN IF verdict # "ok" THEN Reply(s, message.from, verdict, 0)
       ELSE Reply([s EXCEPT !.userStates[userState.userPhone].room = roomNumber,
                            !.userStates[userState.userPhone].step = 3],
                  message.from, "problem_list", 0)

\* members every JavaScript object inherits: looked up by name they are truthy
T_constructor == <<"c", "o", "n", "s", "t", "r", "u", "c", "t", "o", "r">>
ObjectPrototypeKeys == {T_constructor}
\* what SQLite stores for a function bound as a parameter: its source text
FunctionText == <<"f", "n">>

\* this.problemTypesExtended[choice]: the label, an inherited member, or undefined
catalogLookup(choice) ==
    IF choice \in DOMAIN problemTypesExtended THEN problemTypesExtended[choice]
    ELSE IF choice \in ObjectPrototypeKeys THEN FunctionText
    ELSE Null

\* completeTicket up to its first await: the INSERT is issued with the values the
\* conversation holds now
completeTicket(s, message, userState) ==
    Suspend(s, [Idle EXCEPT !.pc = "ct_insert", !.from = message.from, !.us = userState])

handleStep3(s, message, userState) ==
    LET choice == trim(message.body)
    IN IF choice = <<"1", "6">>
       THEN Reply([s EXCEPT !.userStates[userState.userPhone].step = 4],
                  message.from, "ask_custom", 0)
       ELSE IF catalogLookup(choice) = Null
            THEN Reply(s, message.from, "choice_invalid", 0)
       ELSE LET s1 == [s EXCEPT !.userStates[userState.userPhone].problemType =
                                     catalogLookup(choice)]
            IN completeTicket(s1, message, s1.userStates[userState.userPhone])

handleStep4(s, message, userState) ==
    LET customProblem == trim(message.body)
    IN IF Len(customProblem) > 100 THEN Reply(s, message.from, "custom_too_long", 0)
       ELSE IF Len(customProblem) = 0 THEN Reply(s, message.from, "custom_empty", 0)
       ELSE LET s1 == [s EXCEPT !.userStates[userState.userPhone].problemType = customProblem]
            IN completeTicket(s1, message, s1.userStates[userState.userPhone])

continueTicket(s, message) ==
    LET userPhone == message.from
    IN IF ~Has(s.userStates, userPhone) THEN s
       ELSE LET s1 == [s EXCEPT !.userStates[userPhone].attempts = @ + 1]
                userState == s1.userStates[userPhone]
            IN CASE userState.step = 1 -> handleStep1(s1, message, userState)
                 [] userState.step = 2 -> handleStep2(s1, message, userState)
                 [] userState.step = 3 -> handleStep3(s1, message, userState)
                 [] userState.step = 4 -> handleStep4(s1, message, userState)
                 [] OTHER -> s1

handleStop(s, message) ==
    LET userPhone == message.from
    IN IF Has(s.userStates, userPhone)
       THEN Reply([s EXCEPT !.userStates = Del(@, userPhone)], message.from, "stopped", 0)
       ELSE Reply(s, message.from, "no_wizard", 0)

\* a new row of the tickets table, as the INSERT of completeTicket fills it
NewTicket(id, us, t) ==
    [id |-> id, user_id |-> us.userPhone, username |-> us.username, corpus |-> us.corpus,
     room |-> us.room, problem_type |-> us.problemType, status |-> "open",
     created_at |-> t, solved_at |-> NoTime, assigned_admin |-> Null,
     assigned_admin_name |-> Null, solution |-> Null]

\* completeTicket resumed after the INSERT: the row is stored, the creation is
\* recorded in the rate limiter and the requester is answered
completeTicketInserted(s, h) ==
    LET hd == s.handlers[h]
        ticketId == Len(s.tickets) + 1
        s1 == [s EXCEPT !.tickets = Append(@, NewTicket(ticketId, hd.us, s.now))]
        s2 == recordTicketCreation(s1, hd.us.userPhone)
        s3 == Reply(s2, hd.from, "ticket_created", ticketId)
    IN [s3 EXCEPT !.handlers[h].pc = "ct_notify", !.handlers[h].id = ticketId]

\* sendToGroup: the summary to the escalation channel, when one is configured
sendToGroup(s, ticketId) ==
    IF traineeGroupId = Null THEN s ELSE Reply(s, traineeGroupId, "group_new_ticket", ticketId)

\* completeTicket resumed after the reply: the group is told and the conversation
\* registered under the requester's address is deleted
completeTicketNotified(s, h) ==
    LET hd == s.handlers[h]
        s1 == sendToGroup(s, hd.id)
    IN [s1 EXCEPT !.userStates = Del(@, hd.us.userPhone), !.handlers[h] = Idle]

\* a catch block that answers the requester and keeps the conversation
completeTicketRejectedKeeps(s, h) ==
    [Reply(s, s.handlers[h].from, "ticket_failed", 0) EXCEPT !.handlers[h] = Idle]

\* completeTicket when the INSERT is rejected: the catch block answers the requester
\* and deletes the conversation registered under its address
completeTicketRejected(s, h) ==
    LET hd == s.handlers[h]
        s1 == Reply(s, hd.from, "ticket_failed", 0)
    IN [s1 EXCEPT !.userStates = Del(@, hd.us.userPhone), !.handlers[h] = Idle]

\* the number of wizard messages from which handleTicketError ends the conversation
TicketErrorAt == 3

handleTicketError(s, message, userPhone) ==
    IF ~Has(s.userStates, userPhone) THEN s
    ELSE IF s.userStates[userPhone].attempts >= TicketErrorAt
         THEN Reply([s EXCEPT !.userStates = Del(@, userPhone)],
                    message.from, "wizard_terminated", 0)
         ELSE Reply(s, message.from, "wizard_error", 0)

\* continueTicket when the step handler throws before it assigns anything
continueTicketThrows(s, message) ==
    LET userPhone == message.from
    IN IF ~Has(s.userStates, userPhone) THEN s
       ELSE handleTicketError([s EXCEPT !.userStates[userPhone].attempts = @ + 1],
                              message, userPhone)

\* ------------------------------------------------------------------------
\* Ticket Lifecycle Manager: each handler up to its first storage await
\* ------------------------------------------------------------------------
\* SELECT * FROM tickets WHERE id = ?
HasTicket(s, id) == id \in 1..Len(s.tickets)

\* the id a text parameter selects in WHERE id = ?: its number when it is a run
\* of digits, no row otherwise
idOfText(t) == IF t # <<>> /\ digitRun(t) = Len(t) THEN decimal(t) ELSE NaN

markSolved(s, message, adminName) ==
    LET parts == split(message.body)
    IN IF Len(parts) < 3 THEN Reply(s, message.from, "solved_usage", 0)
       ELSE Suspend(s, [Idle EXCEPT !.pc = "ms_get", !.from = message.from,
                                    !.admin = normalize(message.from), !.name = adminName,
                                    !.id = parseInt(parts[2]), !.text = joinFrom(parts, 3)])

handleLongTerm(s, message, adminName) ==
    LET parts == split(message.body)
    IN IF Len(parts) < 2 THEN Reply(s, message.from, "long_usage", 0)
       ELSE Suspend(s, [Idle EXCEPT !.pc = "lt_get", !.from = message.from,
                                    !.admin = normalize(message.from), !.name = adminName,
                                    !.id = parseInt(parts[2])])

handleUnsolved(s, message) ==
    LET parts == split(message.body)
    IN IF Len(parts) < 2 THEN Reply(s, message.from, "unsolved_usage", 0)
       ELSE Suspend(s, [Idle EXCEPT !.pc = "un_get", !.from = message.from,
                                    !.id = parseInt(parts[2])])

handleAssign(s, message) ==
    LET parts == split(message.body)
    IN IF endsWith(message.from, GUs) THEN s
       ELSE IF Len(parts) < 2 THEN Reply(s, message.from, "assign_usage", 0)
       ELSE Suspend(s, [Idle EXCEPT !.pc = "as_active", !.from = message.from,
                                    !.admin = normalize(message.from),
                                    !.name = notifyName(normalize(message.author)),
                                    !.id = idOfText(parts[2])])

handleNoAssign(s, message) ==
    LET parts == split(message.body)
    IN IF endsWith(message.from, GUs) THEN s
       ELSE IF Len(parts) < 2 THEN Reply(s, message.from, "noassign_usage", 0)
       ELSE Suspend(s, [Idle EXCEPT !.pc = "na_get", !.from = message.from,
                                    !.admin = normalize(message.from),
                                    !.name = notifyName(normalize(message.author)),
                                    !.id = idOfText(parts[2])])

\* ------------------------------------------------------------------------
\* Ban Registry commands
\* ------------------------------------------------------------------------
handleBan(s, message) ==
    LET parts == split(message.body)
        normalized == normalize(parts[2])
    IN IF Len(parts) < 2 THEN Reply(s, message.from, "ban_usage", 0)
       ELSE IF normalized = Null THEN Reply(s, message.from, "bad_number", 0)
       ELSE IF isBanned(s, normalized) THEN Reply(s, message.from, "already_banned", 0)
       ELSE Reply(banUser(s, normalized), message.from, "ban_done", 0)

handleUnban(s, message) ==
    LET parts == split(message.body)
        normalized == normalize(parts[2])
    IN IF Len(parts) < 2 THEN Reply(s, message.from, "unban_usage", 0)
       ELSE IF normalized = Null THEN Reply(s, message.from, "bad_number", 0)
       ELSE IF isBanned(s, normalized)
            THEN Reply(unbanUser(s, normalized), message.from, "unban_done", 0)
       ELSE Reply(s, message.from, "unban_not_found", 0)

handleListBan(s, message) == Reply(s, message.from, "ban_list", Cardinality(s.banned))

\* ------------------------------------------------------------------------
\* Admin allow-list commands and exports
\* ------------------------------------------------------------------------
\* dataManager.getAdmins / removeAdmin
getAdmins(s) == s.admins
removeAdmin(s, id) == [s EXCEPT !.admins = @ \ {id}]

T_add == <<"a", "d", "d">>
T_remove == <<"r", "e", "m", "o", "v", "e">>

\* /admin add <number>: the address is completed with the one-to-one suffix; the
\* new admin is sent a temporary password
handleAdminAdd(s, message) ==
    LET parts == split(message.body)
        phoneNumber == IF ~includes(parts[3], CUs) /\ ~includes(parts[3], GUs)
                       THEN parts[3] \o CUs ELSE parts[3]
    IN IF Len(parts) < 3 THEN Reply(s, message.from, "admin_add_usage", 0)
       ELSE IF phoneNumber \notin getAdmins(s)
       THEN Reply(Reply(addAdmin(s, phoneNumber), message.from, "admin_added", 0),
                  phoneNumber, "admin_temp_password", 0)
       ELSE Reply(s, message.from, "admin_already", 0)

\* /admin remove <number>: the entry whose normalized form is the normalized input
handleAdminRemove(s, message) ==
    LET parts == split(message.body)
        normalizedInput == normalize(parts[3])
        found == {a \in getAdmins(s) : normalize(a) = normalizedInput}
    IN IF Len(parts) < 3 THEN Reply(s, message.from, "admin_remove_usage", 0)
       ELSE IF normalizedInput = Null THEN Reply(s, message.from, "bad_number", 0)
       ELSE IF found # {}
       THEN Reply(removeAdmin(s, CHOOSE a \in found : TRUE), message.from, "admin_removed", 0)
       ELSE Reply(s, message.from, "admin_not_found", 0)

handleAdminList(s, message) ==
    Reply(s, message.from, "admin_list", Cardinality(getAdmins(s)))

\* handleExport / handleLogExport / handleDatabaseExport: a file is sent
handleExport(s, message) == Reply(s, message.from, "export", 0)
handleLogExport(s, message) == Reply(s, message.from, "logexport", 0)
handleDatabaseExport(s, message) == Reply(s, message.from, "databaseexport", 0)

\* ------------------------------------------------------------------------
\* Command dispatch
\* ------------------------------------------------------------------------
T_longphoto == T_long \o <<"p", "h", "o", "t", "o">>
T_mylimits == <<"/", "m", "y", "l", "i", "m", "i", "t", "s">>
T_help == <<"/", "h", "e", "l", "p">>

adminCommandsInGroup ==
    {T_ban, T_unban, T_listban, T_admin, T_export, T_logexport, T_databaseexport,
     T_login, T_logout}

\* a session check that guards no text
needsAdminNever(messageBody) == FALSE

\* the texts the admin session check guards
needsAdmin(messageBody) ==
    \/ startsWith(messageBody, T_ban)
    \/ startsWith(messageBody, T_unban)
    \/ messageBody = T_listban
    \/ startsWith(messageBody, T_admin)
    \/ messageBody = T_export
    \/ messageBody = T_logexport
    \/ messageBody = T_databaseexport

Handled(s) == [s |-> s, handled |-> TRUE]
NotHandled(s) == [s |-> s, handled |-> FALSE]

\* handleCommands: the first matching command wins.  The commands that only read
\* and answer (/help, /list, /stats, /ping, /find, /sla, /search, /id show, /rate,
\* /lang, /backup, /register) are represented by /help in groups and /mylimits;
\* /longphoto stands before /long as in the source.
handleCommands(s, message, messageBody, isGroup) ==
    LET adminName == notifyName(normalize(message.author))
    IN IF isGroup /\ \E cmd \in adminCommandsInGroup :
                         messageBody = cmd \/ startsWith(messageBody, cmd \o Sp)
       THEN Handled(s)
       ELSE IF ~isGroup /\ messageBody = T_login
       THEN Handled(Reply([s EXCEPT !.adminLoginState =
                               Put(@, message.from, [step |-> "ask_username", username |-> Null])],
                          message.from, "ask_username", 0))
       ELSE IF ~isGroup /\ messageBody = T_logout
       THEN Handled(Reply([s EXCEPT !.adminSessions = @ \ {message.from}],
                          message.from, "logged_out", 0))
       ELSE IF /\ needsAdmin(messageBody)
               /\ message.from \notin s.adminSessions
               /\ ~isAdmin(s, normalize(message.from))
       THEN Handled(Reply(s, message.from, "admin_required", 0))
       ELSE IF isGroup /\ startsWith(messageBody, T_longphoto)
       THEN Handled(Reply(s, message.from, "info", 0))
       ELSE IF isGroup /\ messageBody = T_help
       THEN Handled(Reply(s, message.from, "info", 0))
       ELSE IF isGroup /\ startsWith(messageBody, T_solved)
       THEN Handled(markSolved(s, message, adminName))
       ELSE IF isGroup /\ startsWith(messageBody, T_long) /\ ~includes(messageBody, T_list)
       THEN Handled(handleLongTerm(s, message, adminName))
       ELSE IF isGroup /\ messageBody = T_long \o Sp \o T_list
       THEN Handled(Reply(s, message.from, "info", 0))
       ELSE IF ~isGroup /\ messageBody = T_start
       THEN Handled(startNewTicket(s, message))
       ELSE IF ~isGroup /\ messageBody = T_stop
       THEN Handled(handleStop(s, message))
       ELSE IF messageBody = T_mylimits
       THEN Handled(Reply(s, message.from, "info", 0))
       ELSE IF isGroup /\ startsWith(messageBody, T_unsolved)
       THEN Handled(handleUnsolved(s, message))
       ELSE IF ~isGroup /\ messageBody = T_export
       THEN Handled(handleExport(s, message))
       ELSE IF ~isGroup /\ messageBody = T_logexport
       THEN Handled(handleLogExport(s, message))
       ELSE IF ~isGroup /\ messageBody = T_databaseexport
       THEN Handled(handleDatabaseExport(s, message))
       ELSE IF startsWith(messageBody, T_ban)
       THEN Handled(handleBan(s, message))
       ELSE IF startsWith(messageBody, T_unban)
       THEN Handled(handleUnban(s, message))
       ELSE IF messageBody = T_listban
       THEN Handled(handleListBan(s, message))
       ELSE IF startsWith(messageBody, T_admin \o Sp \o T_add)
       THEN Handled(handleAdminAdd(s, message))
       ELSE IF messageBody = T_admin \o Sp \o T_list
       THEN Handled(handleAdminList(s, message))
       ELSE IF startsWith(messageBody, T_admin \o Sp \o T_remove)
       THEN Handled(handleAdminRemove(s, message))
       ELSE IF startsWith(messageBody, T_assign)
       THEN Handled(handleAssign(s, message))
       ELSE IF startsWith(messageBody, T_noassign)
       THEN Handled(handleNoAssign(s, message))
       ELSE NotHandled(s)

\* ------------------------------------------------------------------------
\* Admin login interception
\* ------------------------------------------------------------------------
\* the number of failed logins that bans
LoginBanAt == 3

\* step 1: the reply is taken as the username
loginUsername(s, message) ==
    Reply([s EXCEPT !.adminLoginState =
               Put(@, message.from, [step |-> "ask_password", username |-> trim(message.body)])],
          message.from, "ask_password", 0)

\* a successful login that keeps the failed-attempt counter
loginSuccessKeepsCounter(s, message) ==
    LET s1 == [s EXCEPT !.adminSessions = @ \cup {message.from},
                        !.adminLoginState = Del(@, message.from)]
        s2 == IF ~isAdmin(s1, message.from) THEN addAdmin(s1, message.from) ELSE s1
    IN Reply(s2, message.from, "login_ok", 0)

loginSuccess(s, message) ==
    LET normalizedPhone == normalize(message.from)
        s1 == [s EXCEPT !.adminSessions = @ \cup {message.from},
                        !.adminLoginState = Del(@, message.from),
                        !.failedLoginAttempts = Del(@, normalizedPhone)]
        s2 == IF ~isAdmin(s1, message.from) THEN addAdmin(s1, message.from) ELSE s1
    IN Reply(s2, message.from, "login_ok", 0)

\* loginFailure that bans one failure early
loginFailureEarly(s, message) ==
    LET normalizedPhone == normalize(message.from)
        currentAttempts == IF Has(s.failedLoginAttempts, normalizedPhone)
                           THEN s.failedLoginAttempts[normalizedPhone] ELSE 0
        newAttempts == currentAttempts + 1
        s1 == [s EXCEPT !.failedLoginAttempts = Put(@, normalizedPhone, newAttempts)]
    IN IF newAttempts >= LoginBanAt - 1
       THEN LET s2 == banUser(s1, normalizedPhone)
                s3 == [s2 EXCEPT !.failedLoginAttempts = Del(@, normalizedPhone)]
            IN Reply(s3, message.from, "login_banned", 0)
       ELSE LET s2 == Reply(s1, message.from, "login_failed", LoginBanAt - newAttempts)
            IN [s2 EXCEPT !.adminLoginState = Del(@, message.from)]

loginFailure(s, message) ==
    LET normalizedPhone == normalize(message.from)
        currentAttempts == IF Has(s.failedLoginAttempts, normalizedPhone)
                           THEN s.failedLoginAttempts[normalizedPhone] ELSE 0
        newAttempts == currentAttempts + 1
        s1 == [s EXCEPT !.failedLoginAttempts = Put(@, normalizedPhone, newAttempts)]
    IN IF newAttempts >= LoginBanAt
       THEN LET s2 == IF ~isBanned(s1, normalizedPhone) THEN banUser(s1, normalizedPhone) ELSE s1
                s3 == [s2 EXCEPT !.failedLoginAttempts = Del(@, normalizedPhone)]
            IN Reply(s3, message.from, "login_banned", 0)
       ELSE LET s2 == Reply(s1, message.from, "login_failed", LoginBanAt - newAttempts)
            IN [s2 EXCEPT !.adminLoginState = Del(@, message.from)]

\* step 2: the reply is taken as the password
loginPassword(s, message) ==
    LET loginState == s.adminLoginState[message.from]
        username == loginState.username
        password == trim(message.body)
    IN IF username = adminCredentials.username /\ password = adminCredentials.password
       THEN loginSuccess(s, message)
       ELSE loginFailure(s, message)

\* ------------------------------------------------------------------------
\* Spam Auto-Ban Detector
\* ------------------------------------------------------------------------
SpamWindowMs == 60000
SpamLimit == 10

\* message.from.split("@")[0]
senderIdOf(from) ==
    IF \E i \in 1..Len(from) : from[i] = "@"
    THEN SubSeq(from, 1, (CHOOSE i \in 1..Len(from) :
                              from[i] = "@" /\ \A j \in 1..(i - 1) : from[j] # "@") - 1)
    ELSE from

\* the counter of the sender after this arrival
spamCount(s, message) ==
    LET senderId == senderIdOf(message.from)
    IN IF ~Has(s.messageSpam, senderId)
       THEN [s EXCEPT !.messageSpam =
                 Put(@, senderId, [count |-> 1, lastReset |-> s.now, warned |-> FALSE])]
       ELSE IF s.now - s.messageSpam[senderId].lastReset > SpamWindowMs
       THEN [s EXCEPT !.messageSpam[senderId] =
                 [count |-> 1, lastReset |-> s.now, warned |-> FALSE]]
       ELSE [s EXCEPT !.messageSpam[senderId].count = @ + 1]

spamExceeded(s, message) == s.messageSpam[senderIdOf(message.from)].count > SpamLimit

\* a threshold branch that warns at every ban
spamBanAlwaysWarns(s, message) ==
    LET senderId == senderIdOf(message.from)
        normalizedForSpamBan == normalize(senderId)
    IN IF isBanned(s, normalizedForSpamBan) THEN s
       ELSE Reply([banUser(s, normalizedForSpamBan) EXCEPT !.messageSpam[senderId].warned = TRUE],
                  message.from, "spam_warning", 0)

\* the threshold branch: ban, log, and warn once
spamBan(s, message) ==
    LET senderId == senderIdOf(message.from)
        normalizedForSpamBan == normalize(senderId)
    IN IF isBanned(s, normalizedForSpamBan) THEN s
       ELSE LET s1 == banUser(s, normalizedForSpamBan)
            IN IF ~s1.messageSpam[senderId].warned
               THEN Reply([s1 EXCEPT !.messageSpam[senderId].warned = TRUE],
                          message.from, "spam_warning", 0)
               ELSE s1

\* ------------------------------------------------------------------------
\* Message Router
\* ------------------------------------------------------------------------
Routed(s, route) == [s |-> s, route |-> route]

\* a global ban check that stops nobody
globalBanCheckOff(s, message, isGroup) == FALSE

\* step 1-2: the global ban check on the normalized sender
globalBanCheck(s, message, isGroup) ==
    LET normalizedSender == normalize(extractSenderId(message, isGroup))
    IN normalizedSender # Null /\ isBanned(s, normalizedSender)

\* a router that hands a message it has dispatched as a command to the wizard as well
routeMessageFallsThrough(s, message, isGroup) ==
    LET userPhone == extractSenderId(message, isGroup)
        messageBody == trim(message.body)
        loginState == IF Has(s.adminLoginState, message.from)
                      THEN s.adminLoginState[message.from].step ELSE "none"
        cmd == handleCommands(s, message, messageBody, isGroup)
    IN IF message.body = <<>> /\ message.hasMedia = "none" THEN Routed(s, "ignored")
       ELSE IF isBanned(s, normalize(userPhone)) THEN Routed(s, "banned")
       ELSE IF ~isGroup /\ ~startsWith(messageBody, Slash) /\ toLowerCase(messageBody) = T_salam
       THEN Routed(startNewTicket(s, message), "greeting")
       ELSE IF ~isGroup /\ loginState = "ask_username"
       THEN Routed(loginUsername(s, message), "login")
       ELSE IF ~isGroup /\ loginState = "ask_password"
       THEN Routed(loginPassword(s, message), "login")
       ELSE IF cmd.handled
       THEN Routed(IF ~isGroup /\ Has(cmd.s.userStates, userPhone)
                   THEN continueTicket(cmd.s, message) ELSE cmd.s, "command")
       ELSE IF ~isGroup /\ Has(s.userStates, userPhone)
       THEN Routed(continueTicket(s, message), "wizard")
       ELSE Routed(s, "none")

\* from the input guards on: the body of withPerformanceMonitoring('handleMessage')
routeMessage(s, message, isGroup) ==
    LET userPhone == extractSenderId(message, isGroup)
        normalizedUserPhone == normalize(userPhone)
        messageBody == trim(message.body)
        loginState == IF Has(s.adminLoginState, message.from)
                      THEN s.adminLoginState[message.from].step ELSE "none"
        cmd == handleCommands(s, message, messageBody, isGroup)
    IN IF message.body = <<>> /\ message.hasMedia = "none" THEN Routed(s, "ignored")
       ELSE IF message.hasMedia = "big"
       THEN Routed(Reply(s, message.from, "media_too_large", 0), "media")
       ELSE IF isBanned(s, normalizedUserPhone) THEN Routed(s, "banned")
       ELSE IF ~isGroup /\ ~startsWith(messageBody, Slash) /\ toLowerCase(messageBody) = T_salam
       THEN Routed(startNewTicket(s, message), "greeting")
       ELSE IF ~isGroup /\ loginState = "ask_username"
       THEN Routed(loginUsername(s, message), "login")
       ELSE IF ~isGroup /\ loginState = "ask_password"
       THEN Routed(loginPassword(s, message), "login")
       ELSE IF cmd.handled THEN Routed(cmd.s, "command")
       ELSE IF ~isGroup /\ Has(s.userStates, userPhone)
       THEN Routed(continueTicket(s, message), "wizard")
       ELSE Routed(s, "none")

handleMessage(s, message) ==
    LET isGroup == endsWith(message.from, GUs)
        s1 == IF isGroup THEN s ELSE spamCount(s, message)
    IN IF message.fromMe THEN Routed(s, "self")
       ELSE IF globalBanCheck(s, message, isGroup) THEN Routed(s, "banned")
       ELSE IF ~isGroup /\ spamExceeded(s1, message) THEN Routed(spamBan(s1, message), "spam")
       ELSE routeMessage(s1, message, isGroup)

\* the router steps in which an unexpected error may be thrown
FailingSteps == {"login", "command", "wizard"}

\* handleMessage when the first operation of the router step the message reaches
\* throws (step is that router step): an error of the login interception or of
\* handleCommands is caught by the catch block of handleMessage, which logs it; an
\* error of a wizard step is caught by continueTicket, which calls handleTicketError
handleMessageThrows(s, message, step) ==
    LET isGroup == endsWith(message.from, GUs)
        s1 == IF isGroup THEN s ELSE spamCount(s, message)
    IN IF step = "wizard"
       THEN Routed(continueTicketThrows(s1, message), "wizard_error")
       ELSE Routed(s1, step \o "_error")

\* ------------------------------------------------------------------------
\* Ticket Lifecycle Manager: the handlers resumed after their storage awaits.
\* A SELECT is answered, and an UPDATE takes effect, in the step that resumes the
\* handler; the read of admin_profiles (no profile is registered) is folded into
\* the read of the ticket before it.
\* ------------------------------------------------------------------------
Finish(s, h) == [s EXCEPT !.handlers[h] = Idle]
Goto(s, h, pc) == [s EXCEPT !.handlers[h].pc = pc, !.handlers[h].at = s.now]

\* markSolved that does not look at the status it read
markSolvedReadAnyStatus(s, h) ==
    LET hd == s.handlers[h]
    IN IF ~HasTicket(s, hd.id) THEN Finish(Reply(s, hd.from, "not_found", 0), h)
       ELSE Goto(s, h, "ms_update")

\* markSolved after SELECT * FROM tickets WHERE id = ?
markSolvedRead(s, h) ==
    LET hd == s.handlers[h]
    IN IF ~HasTicket(s, hd.id) THEN Finish(Reply(s, hd.from, "not_found", 0), h)
       ELSE IF s.tickets[hd.id].status = "solved"
       THEN Finish(Reply(s, hd.from, "already_solved", hd.id), h)
       ELSE Goto(s, h, "ms_update")

\* markSolved after its UPDATE
markSolvedWrite(s, h) ==
    LET hd == s.handlers[h]
        s1 == IF HasTicket(s, hd.id)
              THEN [s EXCEPT !.tickets[hd.id].status = "solved",
                             !.tickets[hd.id].assigned_admin = hd.admin,
                             !.tickets[hd.id].assigned_admin_name = hd.name,
                             !.tickets[hd.id].solution = hd.text,
                             !.tickets[hd.id].solved_at = hd.at]
              ELSE s
    IN Finish(Reply(s1, hd.from, "solved_done", hd.id), h)

handleLongTermRead(s, h) ==
    LET hd == s.handlers[h]
    IN IF ~HasTicket(s, hd.id) THEN Finish(Reply(s, hd.from, "not_found", 0), h)
       ELSE IF s.tickets[hd.id].status # "open"
       THEN Finish(Reply(s, hd.from, "long_rejected", hd.id), h)
       ELSE Goto(s, h, "lt_update")

handleLongTermWrite(s, h) ==
    LET hd == s.handlers[h]
        s1 == IF HasTicket(s, hd.id)
              THEN [s EXCEPT !.tickets[hd.id].status = "long_term",
                             !.tickets[hd.id].assigned_admin = hd.admin,
                             !.tickets[hd.id].assigned_admin_name = hd.name,
                             !.tickets[hd.id].solved_at = hd.at]
              ELSE s
    IN Finish(Reply(s1, hd.from, "long_done", hd.id), h)

handleUnsolvedRead(s, h) ==
    LET hd == s.handlers[h]
    IN IF ~HasTicket(s, hd.id) THEN Finish(Reply(s, hd.from, "not_found", 0), h)
       ELSE IF s.tickets[hd.id].status # "solved"
       THEN Finish(Reply(s, hd.from, "not_solved", hd.id), h)
       ELSE Goto(s, h, "un_update")

\* a reopening UPDATE that keeps the solution text
handleUnsolvedWriteKeepsSolution(s, h) ==
    LET hd == s.handlers[h]
        s1 == IF HasTicket(s, hd.id)
              THEN [s EXCEPT !.tickets[hd.id].status = "open",
                             !.tickets[hd.id].solved_at = NoTime,
                             !.tickets[hd.id].assigned_admin = Null]
              ELSE s
    IN Finish(Reply(s1, hd.from, "reopened", hd.id), h)

\* a reopening UPDATE that keeps the time of the solution
handleUnsolvedWriteKeepsSolvedAt(s, h) ==
    LET hd == s.handlers[h]
        s1 == IF HasTicket(s, hd.id)
              THEN [s EXCEPT !.tickets[hd.id].status = "open",
                             !.tickets[hd.id].assigned_admin = Null,
                             !.tickets[hd.id].solution = Null]
              ELSE s
    IN Finish(Reply(s1, hd.from, "reopened", hd.id), h)

handleUnsolvedWrite(s, h) ==
    LET hd == s.handlers[h]
        s1 == IF HasTicket(s, hd.id)
              THEN [s EXCEPT !.tickets[hd.id].status = "open",
                             !.tickets[hd.id].solved_at = NoTime,
                             !.tickets[hd.id].assigned_admin = Null,
                             !.tickets[hd.id].solution = Null]
              ELSE s
    IN Finish(Reply(s1, hd.from, "reopened", hd.id), h)

\* SELECT id FROM tickets WHERE assigned_admin = ? AND status NOT IN ('solved','long_term')
activeTickets(s, adminPhone) ==
    {i \in 1..Len(s.tickets) :
        /\ adminPhone # Null
        /\ s.tickets[i].assigned_admin = adminPhone
        /\ s.tickets[i].status \notin {"solved", "long_term"}}

\* handleAssign after the exclusivity query, whose answer is the row `pick`
handleAssignActive(s, h, pick) ==
    LET hd == s.handlers[h]
    IN IF activeTickets(s, hd.admin) # {}
       THEN Finish(Reply(s, hd.from, "assign_busy", pick), h)
       ELSE Goto(s, h, "as_ticket")

\* handleAssign after SELECT * FROM tickets WHERE id = ?
handleAssignRead(s, h) ==
    LET hd == s.handlers[h]
    IN IF ~HasTicket(s, hd.id) THEN Finish(Reply(s, hd.from, "not_found", 0), h)
       ELSE IF s.tickets[hd.id].status = "solved"
       THEN Finish(Reply(s, hd.from, "assign_solved", hd.id), h)
       ELSE IF s.tickets[hd.id].status = "long_term"
       THEN Finish(Reply(s, hd.from, "assign_long_term", hd.id), h)
       ELSE IF s.tickets[hd.id].assigned_admin \notin {Null, <<>>}
       THEN IF s.tickets[hd.id].assigned_admin = hd.admin
            THEN Finish(Reply(s, hd.from, "assign_already_yours", hd.id), h)
            ELSE Finish(Reply(s, hd.from, "assign_taken", hd.id), h)
       ELSE Goto(s, h, "as_update")

\* the notification of a lifecycle change to the escalation channel
notifyGroup(s, kind, ticketId) ==
    IF traineeGroupId = Null THEN s ELSE Reply(s, traineeGroupId, kind, ticketId)

\* handleAssign after its UPDATE
handleAssignWrite(s, h) ==
    LET hd == s.handlers[h]
        s1 == IF HasTicket(s, hd.id)
              THEN [s EXCEPT !.tickets[hd.id].assigned_admin = hd.admin,
                             !.tickets[hd.id].assigned_admin_name = hd.name]
              ELSE s
    IN Finish(notifyGroup(Reply(s1, hd.from, "assign_done", hd.id), "group_assigned", hd.id), h)

handleNoAssignRead(s, h) ==
    LET hd == s.handlers[h]
    IN IF ~HasTicket(s, hd.id) THEN Finish(Reply(s, hd.from, "not_found", 0), h)
       ELSE IF s.tickets[hd.id].assigned_admin # hd.admin
       THEN Finish(Reply(s, hd.from, "noassign_not_yours", hd.id), h)
       ELSE IF s.tickets[hd.id].status = "solved"
       THEN Finish(Reply(s, hd.from, "noassign_solved", hd.id), h)
       ELSE Goto(s, h, "na_update")

handleNoAssignWrite(s, h) ==
    LET hd == s.handlers[h]
        s1 == IF HasTicket(s, hd.id)
              THEN [s EXCEPT !.tickets[hd.id].assigned_admin = Null,
                             !.tickets[hd.id].assigned_admin_name = Null]
              ELSE s
    IN Finish(notifyGroup(Reply(s1, hd.from, "noassign_done", hd.id), "group_unassigned", hd.id), h)

\* the positions of handleAssign and handleNoAssign at a storage await
AssignPcs == {"as_active", "as_ticket", "as_update"}
NoAssignPcs == {"na_get", "na_update"}

\* handleAssign / handleNoAssign when the awaited db.get or db.run is rejected: the
\* catch block logs and sends the error text of the command
assignmentRejected(s, h) ==
    LET hd == s.handlers[h]
        kind == IF hd.pc \in AssignPcs THEN "assign_error" ELSE "noassign_error"
    IN Finish(Reply(s, hd.from, kind, 0), h)

\* a failed notification that undoes the UPDATE
assignmentNotifyThrowsRollsBack(s, h) ==
    LET hd == s.handlers[h]
        isAssign == hd.pc = "as_update"
        s2 == Reply(s, hd.from, IF isAssign THEN "assign_done" ELSE "noassign_done", hd.id)
    IN Finish(Reply(s2, hd.from, IF isAssign THEN "assign_error" ELSE "noassign_error", 0), h)

\* handleAssign / handleNoAssign when, after the UPDATE and the confirmation, the
\* client.sendMessage to the escalation channel throws: the catch block logs and
\* sends the error text of the command
assignmentNotifyThrows(s, h) ==
    LET hd == s.handlers[h]
        isAssign == hd.pc = "as_update"
        s1 == IF HasTicket(s, hd.id)
              THEN [s EXCEPT !.tickets[hd.id].assigned_admin =
                                 IF isAssign THEN hd.admin ELSE Null,
                             !.tickets[hd.id].assigned_admin_name =
                                 IF isAssign THEN hd.name ELSE Null]
              ELSE s
        s2 == Reply(s1, hd.from, IF isAssign THEN "assign_done" ELSE "noassign_done", hd.id)
    IN Finish(Reply(s2, hd.from, IF isAssign THEN "assign_error" ELSE "noassign_error", 0), h)

\* the continuation of handler h; `pick` is the row a query without ORDER BY returns
resume(s, h, pick) ==
    LET pc == s.handlers[h].pc
    IN CASE pc = "ct_insert" -> completeTicketInserted(s, h)
         [] pc = "ct_notify" -> completeTicketNotified(s, h)
         [] pc = "ms_get" -> markSolvedRead(s, h)
         [] pc = "ms_update" -> markSolvedWrite(s, h)
         [] pc = "lt_get" -> handleLongTermRead(s, h)
         [] pc = "lt_update" -> handleLongTermWrite(s, h)
         [] pc = "un_get" -> handleUnsolvedRead(s, h)
         [] pc = "un_update" -> handleUnsolvedWrite(s, h)
         [] pc = "as_active" -> handleAssignActive(s, h, pick)
         [] pc = "as_ticket" -> handleAssignRead(s, h)
         [] pc = "as_update" -> handleAssignWrite(s, h)
         [] pc = "na_get" -> handleNoAssignRead(s, h)
         [] pc = "na_update" -> handleNoAssignWrite(s, h)
         [] OTHER -> s

\* the rows the query of handler h may return
Picks(s, h) ==
    IF s.handlers[h].pc = "as_active" /\ activeTickets(s, s.handlers[h].admin) # {}
    THEN activeTickets(s, s.handlers[h].admin)
    ELSE {0}

\* ------------------------------------------------------------------------
\* History variables
\* ------------------------------------------------------------------------
CatalogKeys == DOMAIN problemTypesExtended \ {<<"1", "6">>}

WizOff == [stage |-> 0, c |-> Null, r |-> Null, k |-> Null, base |-> 0]

\* the sender is in the state the run starts from: not banned, not rate limited, no
\* login in progress
StartState(s, from) ==
    /\ ~isBanned(s, normalize(from))
    /\ canCreateTicket(s, from).allowed
    /\ ~Has(s.adminLoginState, from)

\* the monitor of one sender after one more private text: stage n means that the
\* last n texts were /start, a corpus, a room handleStep2 accepts, a catalog key
wizNext(s, w, m) ==
    LET body == m.body
    IN IF trim(body) = T_start /\ StartState(s, m.from)
       THEN [WizOff EXCEPT !.stage = 1, !.base = Len(s.tickets)]
       ELSE IF w.stage = 1 /\ body \in {<<"1">>, <<"2">>}
       THEN [w EXCEPT !.stage = 2, !.c = body]
       ELSE IF w.stage = 2 /\ roomVerdict(w.c, body) = "ok"
       THEN [w EXCEPT !.stage = 3, !.r = body]
       ELSE IF w.stage = 3 /\ body \in CatalogKeys
       THEN [w EXCEPT !.stage = 4, !.k = body]
       ELSE WizOff

HasKind(o, kind) == \E i \in 1..Len(o) : o[i].kind = kind

\* the private arrivals of one sender by age: in this tick, one tick ago, ... up to
\* the rolling window of the spam detector
RecentTicks == SpamWindowMs \div TickMs + 1
NoArrivals == [i \in 1..RecentTicks |-> 0]
arrived(r, key) == IF Has(r, key) THEN [r EXCEPT ![key][1] = @ + 1] ELSE r
aged(r) == [k \in DOMAIN r |-> [i \in 1..RecentTicks |-> IF i = 1 THEN 0 ELSE r[k][i - 1]]]

\* ------------------------------------------------------------------------
\* Actions
\* ------------------------------------------------------------------------
\* the program variables take the values of the record s
Commit(s) ==
    /\ banned' = s.banned
    /\ admins' = s.admins
    /\ adminSessions' = s.adminSessions
    /\ adminLoginState' = s.adminLoginState
    /\ failedLoginAttempts' = s.failedLoginAttempts
    /\ userStates' = s.userStates
    /\ messageSpam' = s.messageSpam
    /\ userTickets' = s.userTickets
    /\ tickets' = s.tickets
    /\ handlers' = s.handlers
    /\ out' = s.out

\* client.on('message'): one inbound message is handled up to its first storage await
Deliver(m, max) ==
    /\ nmsgs < max
    /\ CanSuspend(St)
    /\ LET r == handleMessage(St, m)
           isGroup == endsWith(m.from, GUs)
           fc == IF Has(failCount, m.from) THEN failCount[m.from] ELSE 0
       IN /\ Commit(r.s)
          /\ last' = [type |-> "msg", route |-> r.route, h |-> 0, pc |-> "none"]
          /\ failCount' = IF HasKind(r.s.out, "login_ok") THEN Del(failCount, m.from)
                          ELSE IF HasKind(r.s.out, "login_failed") \/ HasKind(r.s.out, "login_banned")
                          THEN Put(failCount, m.from, fc + 1)
                          ELSE failCount
          /\ wiz' = IF isGroup \/ m.fromMe THEN wiz
                    ELSE Put(wiz, m.from,
                             wizNext(St, IF Has(wiz, m.from) THEN wiz[m.from] ELSE WizOff, m))
          /\ recent' = IF isGroup \/ m.fromMe \/ globalBanCheck(St, m, isGroup) THEN recent
                       ELSE arrived(recent, senderIdOf(m.from))
          /\ ticketErrors' = IF HasKind(r.s.out, "welcome") THEN Del(ticketErrors, m.from)
                             ELSE ticketErrors
    /\ nmsgs' = nmsgs + 1
    /\ UNCHANGED <<now, bannedUsersTable>>

\* a suspended handler is resumed by the event loop
Resume(h) ==
    /\ handlers[h].pc # "idle"
    /\ \E pick \in Picks(St, h) : Commit(resume(St, h, pick))
    /\ last' = [type |-> "step", route |-> "none", h |-> h, pc |-> handlers[h].pc]
    /\ UNCHANGED <<now, nmsgs, failCount, wiz, recent, bannedUsersTable, ticketErrors>>

\* one inbound message is handled and the router step it reaches throws
DeliverThrows(m, max) ==
    /\ nmsgs < max
    /\ CanSuspend(St)
    /\ LET step == handleMessage(St, m).route
           r == handleMessageThrows(St, m, step)
       IN /\ step \in FailingSteps
          /\ Commit(r.s)
          /\ last' = [type |-> "msg", route |-> r.route, h |-> 0, pc |-> "none"]
          /\ ticketErrors' = IF r.route = "wizard_error"
                             THEN Put(ticketErrors, m.from,
                                      (IF Has(ticketErrors, m.from)
                                       THEN ticketErrors[m.from] ELSE 0) + 1)
                             ELSE ticketErrors
          /\ wiz' = Del(wiz, m.from)
          /\ recent' = arrived(recent, senderIdOf(m.from))
    /\ nmsgs' = nmsgs + 1
    /\ UNCHANGED <<now, failCount, bannedUsersTable>>

\* the INSERT of a suspended completion is rejected by the database
ResumeRejected(h) ==
    /\ handlers[h].pc = "ct_insert"
    /\ Commit(completeTicketRejected(St, h))
    /\ last' = [type |-> "reject", route |-> "none", h |-> h, pc |-> handlers[h].pc]
    /\ UNCHANGED <<now, nmsgs, failCount, wiz, recent, bannedUsersTable, ticketErrors>>

\* a storage operation of a suspended /assign or /noassign is rejected by the database
ResumeAssignmentRejected(h) ==
    /\ handlers[h].pc \in AssignPcs \cup NoAssignPcs
    /\ Commit(assignmentRejected(St, h))
    /\ last' = [type |-> "reject", route |-> "none", h |-> h, pc |-> handlers[h].pc]
    /\ UNCHANGED <<now, nmsgs, failCount, wiz, recent, bannedUsersTable, ticketErrors>>

\* the UPDATE of a suspended /assign or /noassign is applied and the notification of
\* the escalation channel fails
ResumeNotifyThrows(h) ==
    /\ handlers[h].pc \in {"as_update", "na_update"}
    /\ traineeGroupId # Null
    /\ Commit(assignmentNotifyThrows(St, h))
    /\ last' = [type |-> "notify_error", route |-> "none", h |-> h, pc |-> handlers[h].pc]
    /\ UNCHANGED <<now, nmsgs, failCount, wiz, recent, bannedUsersTable, ticketErrors>>

\* time passes
Tick ==
    /\ now < MaxNow
    /\ now' = now + 1
    /\ out' = <<>>
    /\ last' = [type |-> "tick", route |-> "none", h |-> 0, pc |-> "none"]
    /\ recent' = aged(recent)
    /\ UNCHANGED <<progVars, nmsgs, failCount, wiz, bannedUsersTable, ticketErrors>>

\* loadDatabase, started by the constructor: once the database is open, every row of
\* the table banned_users is put into the Ban Registry
loadDatabase ==
    /\ bannedUsersTable # {}
    /\ banned' = banned \cup {IF normalize(r) # Null THEN normalize(r) ELSE r :
                                 r \in bannedUsersTable}
    /\ bannedUsersTable' = {}
    /\ out' = <<>>
    /\ last' = [type |-> "load", route |-> "none", h |-> 0, pc |-> "none"]
    /\ UNCHANGED <<now, admins, adminSessions, adminLoginState, failedLoginAttempts,
                   userStates, messageSpam, userTickets, tickets, handlers,
                   nmsgs, failCount, wiz, recent, ticketErrors>>

\* ------------------------------------------------------------------------
\* The conversation behaviours: requesters walk through the wizard
\* ------------------------------------------------------------------------
R_205 == <<"2", "0", "5">>
R_205a == <<"2", "0", "5", "a">>
R_1400 == <<"1", "4", "0", "0">>
R_100 == <<"1", "0", "0">>
R_544 == <<"5", "4", "4">>
R_1645 == <<"1", "6", "4", "5">>
R_205F == <<"2", "0", "5", "F">>
RoomTexts == {R_205, R_205a, R_1400, R_100, R_544, R_1645, R_205F}

\* the corpus texts, which are catalog keys as well, the last key that completes a
\* ticket and a text that is no key
KeyTexts == {<<"1">>, <<"2">>, <<"1", "5">>, <<"1", "7">>}

WizardTexts == {T_start, T_salam, T_stop} \cup RoomTexts \cup KeyTexts

WizardMsgs == {PrivMsg(U1, b) : b \in WizardTexts}

\* the sender has already sent this many texts that matched nothing, at time 0
PriorTexts == {0, SpamLimit - 3}

InitState(tk, adm, spam, rate) ==
    /\ now = 0
    /\ banned = {}
    /\ admins = adm
    /\ adminSessions = {}
    /\ adminLoginState = EmptyMap
    /\ failedLoginAttempts = EmptyMap
    /\ userStates = EmptyMap
    /\ messageSpam = spam
    /\ userTickets = rate
    /\ tickets = tk
    /\ handlers = [h \in HandlerIds |-> Idle]
    /\ out = <<>>
    /\ last = [type |-> "init", route |-> "none", h |-> 0, pc |-> "none"]
    /\ nmsgs = 0
    /\ failCount = EmptyMap
    /\ wiz = EmptyMap
    /\ bannedUsersTable = {}
    /\ ticketErrors = EmptyMap

\* no sender's arrivals are observed
InitWith(tk, adm, spam, rate) == InitState(tk, adm, spam, rate) /\ recent = EmptyMap

\* this.messageSpam after n private texts of d at time 0
spamAfter(d, n) ==
    IF n = 0 THEN EmptyMap
    ELSE [x \in {d} |-> [count |-> n, lastReset |-> 0, warned |-> FALSE]]

Init == \E n \in PriorTexts : InitWith(<<>>, {}, spamAfter(U1, n), EmptyMap)

Next ==
    \/ \E m \in WizardMsgs : Deliver(m, MaxWizardMsgs)
    \/ \E h \in HandlerIds : Resume(h)
    \/ Tick

Spec == Init /\ [][Next]_vars

\* ------------------------------------------------------------------------
\* The rate-limit behaviours: one requester creates tickets as time passes
\* ------------------------------------------------------------------------
RateTexts == {T_start, T_salam, <<"1">>, R_205, <<"1", "5">>}
RateMsgs == {PrivMsg(U1, b) : b \in RateTexts}

InitRate == InitWith(<<>>, {}, EmptyMap, EmptyMap)

NextRate ==
    \/ \E m \in RateMsgs : Deliver(m, MaxRateMsgs)
    \/ \E h \in HandlerIds : Resume(h)
    \/ Tick

SpecRate == InitRate /\ [][NextRate]_vars


\* ------------------------------------------------------------------------
\* The restart behaviours: a requester walks through the wizard again and again
\* ------------------------------------------------------------------------
RestartTexts == {T_start, <<"1">>, R_205, <<"1", "5">>}
RestartMsgs == {PrivMsg(U1, b) : b \in RestartTexts}

InitRestart == InitWith(<<>>, {}, EmptyMap, EmptyMap)

NextRestart ==
    \/ \E m \in RestartMsgs : Deliver(m, MaxRestartMsgs)
    \/ \E h \in HandlerIds : Resume(h)

SpecRestart == InitRestart /\ [][NextRestart]_vars

\* ------------------------------------------------------------------------
\* The lifecycle behaviours: a technician works on the tickets of the table
\* ------------------------------------------------------------------------
\* a row as completeTicket stored it before the program started
StoredTicket(i) ==
    NewTicket(i, [NoUS EXCEPT !.step = 3, !.username = notifyName(U1), !.userPhone = Priv(U1),
                              !.corpus = <<"1">>, !.room = R_205,
                              !.problemType = problemTypesExtended[<<"1">>]], 0)

L_fix == <<"o", "k">>
LifePrivTexts == {T_assign \o Sp \o <<"1">>, T_assign \o Sp \o <<"2">>, T_noassign \o Sp \o <<"1">>}
LifeGroupTexts == {T_solved \o Sp \o <<"1">> \o Sp \o L_fix, T_long \o Sp \o <<"1">>,
                   T_unsolved \o Sp \o <<"1">>}
LifeMsgs == {PrivMsg(A1, b) : b \in LifePrivTexts} \cup {GroupMsg(A1, b) : b \in LifeGroupTexts}

InitLife == InitWith([i \in 1..InitTickets |-> StoredTicket(i)], {Priv(A1)}, EmptyMap, EmptyMap)

NextLife ==
    \/ \E m \in LifeMsgs : Deliver(m, MaxLifeMsgs)
    \/ \E h \in HandlerIds : Resume(h)

SpecLife == InitLife /\ [][NextLife]_vars

\* ------------------------------------------------------------------------
\* The ban behaviours: a requester is banned by a technician or by the spam detector
\* ------------------------------------------------------------------------
BanUserTexts == {T_start, T_salam, <<"1">>, T_login}
BanAdminTexts == {T_ban \o Sp \o U1}
BanMsgs == {PrivMsg(U1, b) : b \in BanUserTexts} \cup {PrivMsg(A1, b) : b \in BanAdminTexts}
                \cup {GroupMsg(U1, T_help)}

InitBan == \E n \in PriorTexts : InitWith(<<>>, {Priv(A1)}, spamAfter(U1, n), EmptyMap)

NextBan ==
    \/ \E m \in BanMsgs : Deliver(m, MaxBanMsgs)
    \/ Tick

SpecBan == InitBan /\ [][NextBan]_vars

\* ------------------------------------------------------------------------
\* The login behaviours: a sender tries the credentials
\* ------------------------------------------------------------------------
LoginTexts == {T_login, adminCredentials.username, adminCredentials.password}
LoginMsgs == {PrivMsg(U1, b) : b \in LoginTexts}

InitLogin == InitWith(<<>>, {}, EmptyMap, EmptyMap)

NextLogin ==
    \/ \E m \in LoginMsgs : Deliver(m, MaxLoginMsgs)
    \/ Tick

SpecLogin == InitLogin /\ [][NextLogin]_vars

\* ------------------------------------------------------------------------
\* The spam behaviours: one sender sends a text that matches nothing, again and
\* again, as time passes; its arrivals are observed
\* ------------------------------------------------------------------------
SpamMsgs == {PrivMsg(U1, <<"1">>)}

InitSpam == InitState(<<>>, {}, EmptyMap, EmptyMap) /\ recent = [k \in {U1} |-> NoArrivals]

NextSpam ==
    \/ \E m \in SpamMsgs : Deliver(m, MaxSpamMsgs)
    \/ Tick

SpecSpam == InitSpam /\ [][NextSpam]_vars

\* ------------------------------------------------------------------------
\* The interception behaviours: a requester in the wizard starts a login
\* ------------------------------------------------------------------------
InterceptTexts == {T_start, T_salam, <<"1">>, T_login, T_stop}
InterceptMsgs == {PrivMsg(U1, b) : b \in InterceptTexts}

InitIntercept == InitWith(<<>>, {}, EmptyMap, EmptyMap)

NextIntercept == \E m \in InterceptMsgs : Deliver(m, MaxInterceptMsgs)

SpecIntercept == InitIntercept /\ [][NextIntercept]_vars

\* ------------------------------------------------------------------------
\* The notification behaviours: a technician works on the tickets from a private
\* chat, from the escalation channel and from another group the bot is a member of
\* ------------------------------------------------------------------------
OtherGroupId == <<"9", "1">> \o GUs

NotifyMsgs ==
    {PrivMsg(A1, T_assign \o Sp \o <<"1">>), PrivMsg(A1, T_noassign \o Sp \o <<"1">>),
     GroupMsg(A1, T_long \o Sp \o <<"1">>), GroupMsg(A1, T_unsolved \o Sp \o <<"1">>),
     Msg(OtherGroupId, Priv(A1), T_solved \o Sp \o <<"1">> \o Sp \o L_fix)}

InitNotify == InitWith([i \in 1..InitTickets |-> StoredTicket(i)], {Priv(A1)}, EmptyMap, EmptyMap)

NextNotify ==
    \/ \E m \in NotifyMsgs : Deliver(m, MaxNotifyMsgs)
    \/ \E h \in HandlerIds : Resume(h)

SpecNotify == InitNotify /\ [][NextNotify]_vars

\* ------------------------------------------------------------------------
\* The registry behaviours: a sender that may have sent texts and failed logins
\* before is banned by the spam detector, by the login path or by a technician, and
\* unbanned by the technician
\* ------------------------------------------------------------------------
RegistryMsgs ==
    {PrivMsg(U1, T_login), PrivMsg(U1, <<"1">>), PrivMsg(U1, T_ban \o Sp \o A1),
     PrivMsg(A1, T_ban \o Sp \o U1), PrivMsg(A1, T_unban \o Sp \o U1)}

\* failed logins the sender has made before: none, or one less than the ban needs
PriorFails == {0, LoginBanAt - 1}

\* the table banned_users of the database: missing or empty, or with the row of a
\* sender that is not in the Ban Registry (it has been unbanned)
LegacyTables == {{}, {Priv(U1)}}

InitRegistry ==
    \E n \in PriorTexts : \E f \in PriorFails : \E rows \in LegacyTables :
        /\ now = 0
        /\ banned = {}
        /\ admins = {Priv(A1)}
        /\ adminSessions = {}
        /\ adminLoginState = EmptyMap
        /\ failedLoginAttempts = IF f = 0 THEN EmptyMap ELSE [k \in {U1} |-> f]
        /\ userStates = EmptyMap
        /\ messageSpam = spamAfter(U1, n)
        /\ userTickets = EmptyMap
        /\ tickets = <<>>
        /\ handlers = [h \in HandlerIds |-> Idle]
        /\ out = <<>>
        /\ last = [type |-> "init", route |-> "none", h |-> 0, pc |-> "none"]
        /\ nmsgs = 0
        /\ failCount = IF f = 0 THEN EmptyMap ELSE [k \in {Priv(U1)} |-> f]
        /\ wiz = EmptyMap
        /\ recent = EmptyMap
        /\ bannedUsersTable = rows
        /\ ticketErrors = EmptyMap

NextRegistry ==
    \/ \E m \in RegistryMsgs : Deliver(m, MaxRegistryMsgs)
    \/ loadDatabase

SpecRegistry == InitRegistry /\ [][NextRegistry]_vars

\* ------------------------------------------------------------------------
\* The admin-command behaviours: a sender, on the allow-list or not, logs in and
\* sends the commands that require admin authorization
\* ------------------------------------------------------------------------
AdminCmdTexts ==
    {T_ban \o Sp \o U2, T_unban \o Sp \o U2, T_listban,
     T_admin \o Sp \o T_add \o Sp \o U2, T_admin \o Sp \o T_remove \o Sp \o U1,
     T_admin \o Sp \o T_list, T_export, T_logexport, T_databaseexport}
AdminMsgs == {PrivMsg(U1, b) : b \in AdminCmdTexts \cup LoginTexts}

InitAdmin == \E adm \in {{}, {Priv(U1)}} : InitWith(<<>>, adm, EmptyMap, EmptyMap)

NextAdmin == \E m \in AdminMsgs : Deliver(m, MaxAdminMsgs)

SpecAdmin == InitAdmin /\ [][NextAdmin]_vars

\* ------------------------------------------------------------------------
\* The interleaving behaviours: one conversation stands at the problem choice; its
\* requester sends keys, other texts and /stop while completions are suspended.  No
\* text starts a conversation, so every ticket comes from this one run.
\* ------------------------------------------------------------------------
RaceTexts == {<<"1">>, <<"2">>, <<"1", "6">>, <<"1", "7">>, T_constructor, T_stop}
RaceMsgs == {PrivMsg(U1, b) : b \in RaceTexts}

\* this.userStates after /start, corpus 1 and room 205 of sender d
AtProblemChoice(d) ==
    [k \in {Priv(d)} |->
        [NoUS EXCEPT !.step = 3, !.username = notifyName(d), !.userPhone = Priv(d),
                     !.corpus = <<"1">>, !.room = R_205, !.attempts = 2]]

InitRace ==
    /\ now = 0
    /\ banned = {}
    /\ admins = {}
    /\ adminSessions = {}
    /\ adminLoginState = EmptyMap
    /\ failedLoginAttempts = EmptyMap
    /\ userStates = AtProblemChoice(U1)
    /\ messageSpam = spamAfter(U1, 3)
    /\ userTickets = EmptyMap
    /\ tickets = <<>>
    /\ handlers = [h \in HandlerIds |-> Idle]
    /\ out = <<>>
    /\ last = [type |-> "init", route |-> "none", h |-> 0, pc |-> "none"]
    /\ nmsgs = 0
    /\ failCount = EmptyMap
    /\ wiz = EmptyMap
    /\ recent = EmptyMap
    /\ bannedUsersTable = {}
    /\ ticketErrors = EmptyMap

NextRace ==
    \/ \E m \in RaceMsgs : Deliver(m, MaxRaceMsgs)
    \/ \E h \in HandlerIds : Resume(h)

SpecRace == InitRace /\ [][NextRace]_vars
\* ------------------------------------------------------------------------
\* The routing behaviours: a requester whose conversation stands at the problem
\* choice, banned since then or not, sends wizard replies, the greeting and commands,
\* privately and in the group
\* ------------------------------------------------------------------------
RoutePrivTexts ==
    {<<"1">>, <<"1", "6">>, <<"1", "7">>, T_salam, T_start, T_stop, T_login, T_mylimits}
RouteGroupTexts == {<<"1">>, <<"1", "6">>, T_start}
RouteMsgs ==
    {PrivMsg(U1, b) : b \in RoutePrivTexts} \cup {GroupMsg(U1, b) : b \in RouteGroupTexts}

InitRoute ==
    \E b \in {{}, {U1}} :
        /\ now = 0
        /\ banned = b
        /\ admins = {}
        /\ adminSessions = {}
        /\ adminLoginState = EmptyMap
        /\ failedLoginAttempts = EmptyMap
        /\ userStates = AtProblemChoice(U1)
        /\ messageSpam = spamAfter(U1, 3)
        /\ userTickets = EmptyMap
        /\ tickets = <<>>
        /\ handlers = [h \in HandlerIds |-> Idle]
        /\ out = <<>>
        /\ last = [type |-> "init", route |-> "none", h |-> 0, pc |-> "none"]
        /\ nmsgs = 0
        /\ failCount = EmptyMap
        /\ wiz = EmptyMap
        /\ recent = EmptyMap
        /\ bannedUsersTable = {}
        /\ ticketErrors = EmptyMap

NextRoute ==
    \/ \E m \in RouteMsgs : Deliver(m, MaxRouteMsgs)
    \/ \E h \in HandlerIds : Resume(h)

SpecRoute == InitRoute /\ [][NextRoute]_vars
\* ------------------------------------------------------------------------
\* The room behaviours: a requester whose conversation stands at the room, in either
\* corpus, sends room texts: at and beyond the ends of both ranges, with letters in
\* both cases, with cabinet numbers, with surrounding spaces, too long, without a
\* leading digit; the texts 1 and 16 are rooms out of range and, once a room is
\* stored, keys of the problem choice
\* ------------------------------------------------------------------------
R_101 == <<"1", "0", "1">>
R_543E == <<"5", "4", "3", "E">>
R_1101 == <<"1", "1", "0", "1">>
R_1644 == <<"1", "6", "4", "4">>
R_205_13 == <<"2", "0", "5", " ", "1", "3">>
R_205_14 == <<"2", "0", "5", " ", "1", "4">>
R_205A0 == <<"2", "0", "5", "A", "0">>
R_205B2C == <<"2", "0", "5", "B", "2", "C">>
R_A205 == <<"A", "2", "0", "5">>
R_padded == <<" ", " ", " ", " ", " ", "2", "0", "5", "A", " ", " ", " ">>
R_long == <<"2", "0", "5", " ", "A", " ", "B", " ", "C", " ", "D">>
RoomReplies ==
    RoomTexts \cup {R_101, R_543E, R_1101, R_1644, R_205_13, R_205_14, R_205A0, R_205B2C,
                    R_A205, R_padded, R_long, <<"1">>, <<"1", "6">>}
RoomMsgs == {PrivMsg(U1, b) : b \in RoomReplies}

\* this.userStates after /start and the corpus c of sender d
AtRoom(d, c) ==
    [k \in {Priv(d)} |->
        [NoUS EXCEPT !.step = 2, !.username = notifyName(d), !.userPhone = Priv(d),
                     !.corpus = c, !.attempts = 1]]

InitRoom ==
    \E c \in {<<"1">>, <<"2">>} :
        /\ now = 0
        /\ banned = {}
        /\ admins = {}
        /\ adminSessions = {}
        /\ adminLoginState = EmptyMap
        /\ failedLoginAttempts = EmptyMap
        /\ userStates = AtRoom(U1, c)
        /\ messageSpam = spamAfter(U1, 2)
        /\ userTickets = EmptyMap
        /\ tickets = <<>>
        /\ handlers = [h \in HandlerIds |-> Idle]
        /\ out = <<>>
        /\ last = [type |-> "init", route |-> "none", h |-> 0, pc |-> "none"]
        /\ nmsgs = 0
        /\ failCount = EmptyMap
        /\ wiz = EmptyMap
        /\ recent = EmptyMap
        /\ bannedUsersTable = {}
        /\ ticketErrors = EmptyMap

NextRoom ==
    \/ \E m \in RoomMsgs : Deliver(m, MaxRoomMsgs)
    \/ \E h \in HandlerIds : Resume(h)

SpecRoom == InitRoom /\ [][NextRoom]_vars
\* ------------------------------------------------------------------------
\* The failure behaviours: a requester starts the wizard, answers it and logs in,
\* while router steps throw unexpected errors and the database rejects INSERTs
\* ------------------------------------------------------------------------
ErrorTexts == {T_start, <<"1">>, R_205, T_login}
ErrorMsgs == {PrivMsg(U1, b) : b \in ErrorTexts}

InitError == InitWith(<<>>, {}, EmptyMap, EmptyMap)

NextError ==
    \/ \E m \in ErrorMsgs : Deliver(m, MaxErrorMsgs)
    \/ \E m \in ErrorMsgs : DeliverThrows(m, MaxErrorMsgs)
    \/ \E h \in HandlerIds : Resume(h)
    \/ \E h \in HandlerIds : ResumeRejected(h)

SpecError == InitError /\ [][NextError]_vars
\* ------------------------------------------------------------------------
\* The group-command behaviours: a sender, on the allow-list or not, logs in
\* privately and sends the admin-only commands to the group: alone, with an
\* argument, and followed at once by further letters
\* ------------------------------------------------------------------------
GroupCmdTexts ==
    {T_ban \o Sp \o U2, T_unban \o Sp \o U2, T_listban, T_admin \o Sp \o T_list,
     T_export, T_logexport, T_databaseexport, T_login, T_logout,
     T_ban \o <<"s">>, T_login \o <<"s">>}
GroupCmdMsgs ==
    {PrivMsg(U1, b) : b \in LoginTexts} \cup {GroupMsg(U1, b) : b \in GroupCmdTexts}

InitGroup == \E adm \in {{}, {Priv(U1)}} : InitWith(<<>>, adm, EmptyMap, EmptyMap)

NextGroup == \E m \in GroupCmdMsgs : Deliver(m, MaxGroupMsgs)

SpecGroup == InitGroup /\ [][NextGroup]_vars

\* ------------------------------------------------------------------------
\* The assignment behaviours: two technicians and a requester take and release the
\* tickets of the table; storage operations and notifications may fail
\* ------------------------------------------------------------------------
AssignMsgs ==
    {PrivMsg(A1, T_assign \o Sp \o <<"1">>), PrivMsg(A2, T_assign \o Sp \o <<"1">>),
     PrivMsg(A1, T_noassign \o Sp \o <<"1">>), PrivMsg(U1, T_assign \o Sp \o <<"2">>)}

InitAssign ==
    InitWith([i \in 1..InitTickets |-> StoredTicket(i)], {Priv(A1), Priv(A2)}, EmptyMap, EmptyMap)

NextAssign ==
    \/ \E m \in AssignMsgs : Deliver(m, MaxAssignMsgs)
    \/ \E h \in HandlerIds : Resume(h)
    \/ \E h \in HandlerIds : ResumeAssignmentRejected(h)
    \/ \E h \in HandlerIds : ResumeNotifyThrows(h)

SpecAssign == InitAssign /\ [][NextAssign]_vars

\* ------------------------------------------------------------------------
\* The unban behaviours: a requester in the middle of the wizard, who may have sent
\* texts and failed logins before, is banned by the spam detector, by the login
\* path or by a technician, and is unbanned by the technician, as time passes
\* ------------------------------------------------------------------------
UnbanUserTexts == {<<"1">>, R_205, T_login}
UnbanMsgs ==
    {PrivMsg(U1, b) : b \in UnbanUserTexts}
        \cup {PrivMsg(A1, T_ban \o Sp \o U1), PrivMsg(A1, T_unban \o Sp \o U1)}

\* what the requester has done before: the two texts that led to the room question
\* and two failed logins, or one text less than the spam detector tolerates in the
\* running minute and no failed login
UnbanPriors ==
    {[texts |-> 2, fails |-> LoginBanAt - 1], [texts |-> SpamLimit - 1, fails |-> 0]}

InitUnban ==
    \E pr \in UnbanPriors : \E n \in {pr.texts} : \E f \in {pr.fails} :
        /\ now = 0
        /\ banned = {}
        /\ admins = {Priv(A1)}
        /\ adminSessions = {}
        /\ adminLoginState = EmptyMap
        /\ failedLoginAttempts = IF f = 0 THEN EmptyMap ELSE [k \in {U1} |-> f]
        /\ userStates = AtRoom(U1, <<"1">>)
        /\ messageSpam = spamAfter(U1, n)
        /\ userTickets = EmptyMap
        /\ tickets = <<>>
        /\ handlers = [h \in HandlerIds |-> Idle]
        /\ out = <<>>
        /\ last = [type |-> "init", route |-> "none", h |-> 0, pc |-> "none"]
        /\ nmsgs = 0
        /\ failCount = IF f = 0 THEN EmptyMap ELSE [k \in {Priv(U1)} |-> f]
        /\ wiz = EmptyMap
        /\ recent = EmptyMap
        /\ bannedUsersTable = {}
        /\ ticketErrors = EmptyMap

NextUnban ==
    \/ \E m \in UnbanMsgs : Deliver(m, MaxUnbanMsgs)
    \/ \E h \in HandlerIds : Resume(h)
    \/ Tick

SpecUnban == InitUnban /\ [][NextUnban]_vars

\* ------------------------------------------------------------------------
\* Properties
\* ------------------------------------------------------------------------
\* the sender the global ban check looks up for message m
SenderOf(m) == normalize(extractSenderId(m, endsWith(m.from, GUs)))

\* this step resumed handler h, which stood at position pc
Resumed(h, pc) == last'.type = "step" /\ last'.h = h /\ last'.pc = pc

\* m is a private message that neither the ban check nor the spam detector stops
PassesGuards(m) ==
    /\ ~endsWith(m.from, GUs)
    /\ ~globalBanCheck(St, m, FALSE)
    /\ ~spamExceeded(spamCount(St, m), m)

\* C1: a message whose sender is in the Ban Registry when it arrives gets no reply
\* and changes no state of the program (conversations, login states, spam counters,
\* tickets, registry, pending handlers), whatever its body is.
C1_BannedSenderIgnored ==
    [][\A m \in BanMsgs :
          (SenderOf(m) \in banned /\ Deliver(m, MaxBanMsgs))
              => (UNCHANGED progVars /\ out' = <<>>)]_vars

\* a banned sender with a conversation and a login in progress has sent a message
C1_Witness ==
    /\ last.type = "msg" /\ last.route = "banned"
    /\ U1 \in banned
    /\ Has(userStates, Priv(U1))
    /\ Has(adminLoginState, Priv(U1))

\* C2: when a sender that is not banned, not rate limited and not logging in has sent
\* /start, a corpus c, a room r valid for c and a catalog key k in 1..15, the last of
\* the four messages starts one completion for (c, r, label of k); that completion
\* stores exactly one ticket with these values, status open, no assigned admin and no
\* solved_at; and when it ends no ConversationState exists for the sender.  No other
\* step stores a ticket.
C2_HappyPathOneTicket ==
    [][/\ \A from \in DOMAIN wiz' :
            (/\ nmsgs' = nmsgs + 1
             /\ Has(wiz, from) /\ wiz[from].stage = 3
             /\ wiz'[from].stage = 4)
                => \E h \in HandlerIds :
                      /\ handlers[h].pc = "idle"
                      /\ handlers'[h].pc = "ct_insert"
                      /\ handlers'[h].us.userPhone = from
                      /\ handlers'[h].us.corpus = wiz'[from].c
                      /\ handlers'[h].us.room = wiz'[from].r
                      /\ handlers'[h].us.problemType = problemTypesExtended[wiz'[from].k]
       /\ \A h \in HandlerIds :
            Resumed(h, "ct_insert")
                => tickets' = Append(tickets,
                       [id |-> Len(tickets) + 1, user_id |-> handlers[h].us.userPhone,
                        username |-> handlers[h].us.username,
                        corpus |-> handlers[h].us.corpus, room |-> handlers[h].us.room,
                        problem_type |-> handlers[h].us.problemType, status |-> "open",
                        created_at |-> nowMs, solved_at |-> NoTime, assigned_admin |-> Null,
                        assigned_admin_name |-> Null, solution |-> Null])
       /\ \A h \in HandlerIds :
            Resumed(h, "ct_notify")
                => (tickets' = tickets /\ ~Has(userStates', handlers[h].us.userPhone))
       /\ (tickets' # tickets => \E h \in HandlerIds : Resumed(h, "ct_insert"))]_vars

\* the tickets that are assigned to admin a and neither solved nor long_term
ActiveOf(a) ==
    {i \in 1..Len(tickets) :
        tickets[i].assigned_admin = a /\ tickets[i].status \notin {"solved", "long_term"}}

\* C3: when the exclusivity query of a private /assign of admin X for ticket n is
\* answered while X is the assigned admin of another ticket T that is neither solved
\* nor long_term, the command is rejected with a reply that names T, and no ticket
\* changes.
C3_AssignRejectedNamingHeldTicket ==
    [][\A h \in HandlerIds : \A T \in 1..Len(tickets) :
          (/\ Resumed(h, "as_active")
           /\ T \in ActiveOf(handlers[h].admin)
           /\ T # handlers[h].id)
              => /\ \E i \in 1..Len(out') :
                       out'[i].kind = "assign_busy" /\ out'[i].ref = T
                 /\ tickets' = tickets]_vars

\* C4: in every reachable state no admin is the assigned admin of more than one
\* ticket whose status is open.
C4_OneOpenTicketPerAdmin ==
    \A i, j \in 1..Len(tickets) :
        (/\ i # j
         /\ tickets[i].status = "open" /\ tickets[j].status = "open"
         /\ tickets[i].assigned_admin # Null)
            => tickets[i].assigned_admin # tickets[j].assigned_admin

\* C5: when /solved <id> <text> finds the ticket with status solved, it is rejected:
\* the handler ends with the rejection reply and the tickets table, so the ticket's
\* status, solved_at, solution and assigned admin, is unchanged.
C5_SolvedTwiceRejected ==
    [][\A h \in HandlerIds :
          (/\ Resumed(h, "ms_get")
           /\ HasTicket(St, handlers[h].id)
           /\ tickets[handlers[h].id].status = "solved")
              => /\ tickets' = tickets
                 /\ handlers'[h].pc = "idle"
                 /\ \E i \in 1..Len(out') :
                       out'[i].kind = "already_solved" /\ out'[i].to = handlers[h].from]_vars

\* a /solved for a solved ticket has been answered
C5_Witness ==
    /\ last.type = "step" /\ last.pc = "ms_get"
    /\ HasKind(out, "already_solved")
    /\ tickets[1].status = "solved"

AllowedTransitions ==
    {<<"open", "solved">>, <<"open", "long_term">>, <<"long_term", "solved">>,
     <<"solved", "open">>}

\* C6: every change of a ticket's status is one of open->solved, open->long_term,
\* long_term->solved, solved->open, also when /solved, /long and /unsolved handlers
\* of the same ticket interleave at their awaits.
C6_StatusTransitions ==
    [][\A i \in 1..Len(tickets) :
          tickets'[i].status # tickets[i].status
              => <<tickets[i].status, tickets'[i].status>> \in AllowedTransitions]_vars

\* C7: when /unsolved <id> finds no ticket, or one whose status is open or long_term,
\* it ends and changes nothing; when it finds the ticket solved it goes on to its
\* UPDATE, which sets status open and clears solved_at, assigned_admin and solution
\* of that ticket and touches no other ticket.
C7_UnsolvedReopens ==
    [][\A h \in HandlerIds :
          LET id == handlers[h].id
          IN /\ (Resumed(h, "un_get") /\ (~HasTicket(St, id) \/ tickets[id].status # "solved"))
                    => (tickets' = tickets /\ handlers'[h].pc = "idle")
             /\ (Resumed(h, "un_get") /\ HasTicket(St, id) /\ tickets[id].status = "solved")
                    => (tickets' = tickets /\ handlers'[h].pc = "un_update")
             /\ Resumed(h, "un_update")
                    => /\ tickets'[id].status = "open"
                       /\ tickets'[id].solved_at = NoTime
                       /\ tickets'[id].assigned_admin = Null
                       /\ tickets'[id].solution = Null
                       /\ \A j \in 1..Len(tickets) : j # id => tickets'[j] = tickets[j]
                       /\ Len(tickets') = Len(tickets)]_vars

\* a solved ticket has been reopened
C7_Witness ==
    /\ last.type = "step" /\ last.pc = "un_update"
    /\ HasKind(out, "reopened")
    /\ tickets[1].status = "open"
    /\ tickets[1].solution = Null

\* C8: after every step, a sender with one or two failed password replies since its
\* last successful login has a failed-attempt counter equal to that number, and the
\* failed reply itself added nobody to the Ban Registry; a sender with three has no
\* counter and is in the Ban Registry.
C8_ThreeFailedLogins ==
    [][\A from \in DOMAIN failCount' :
          LET id == normalize(from)
              n == failCount'[from]
              before == IF Has(failCount, from) THEN failCount[from] ELSE 0
          IN /\ n \in {1, 2}
                    => /\ Has(failedLoginAttempts', id)
                       /\ failedLoginAttempts'[id] = n
                       /\ (n = before + 1 => banned' = banned)
             /\ n = 3 => (id \in banned' /\ ~Has(failedLoginAttempts', id))]_vars

\* the third failed password reply has been handled
C8_Witness ==
    /\ Has(failCount, Priv(U1))
    /\ failCount[Priv(U1)] = 3
    /\ U1 \in banned
    /\ HasKind(out, "login_banned")

\* the leading number of the room text is outside the range of corpus c
OutOfRange(c, body) ==
    LET t == trim(body)
        n == digitRun(t)
        v == decimal(SubSeq(t, 1, n))
    IN /\ n > 0
       /\ \/ c = <<"1">> /\ (v < 101 \/ v > 543)
          \/ c = <<"2">> /\ (v < 1101 \/ v > 1644)

\* C9: a message of a sender whose conversation is in AwaitRoom, with a room whose
\* leading number is outside the range of the stored corpus, leaves the step at
\* AwaitRoom, stores no room and creates no ticket (no completion is started).
C9_RoomOutOfRangeRejected ==
    [][\A m \in WizardMsgs :
          (/\ Has(userStates, m.from)
           /\ userStates[m.from].step = 2
           /\ OutOfRange(userStates[m.from].corpus, m.body)
           /\ Deliver(m, MaxWizardMsgs))
              => /\ Has(userStates', m.from)
                 /\ userStates'[m.from].step = 2
                 /\ userStates'[m.from].room = Null
                 /\ userStates'[m.from].corpus = userStates[m.from].corpus
                 /\ tickets' = tickets
                 /\ handlers' = handlers]_vars

\* an out-of-range room has been answered with its re-prompt
C9_Witness ==
    /\ last.type = "msg" /\ last.route = "wizard"
    /\ HasKind(out, "room_out_of_range")
    /\ userStates[Priv(U1)].step = 2

\* /start or the greeting word
IsStartRequest(m) == trim(m.body) = T_start \/ toLowerCase(trim(m.body)) = T_salam

TicketsOf(from) == {i \in 1..Len(tickets) : tickets[i].user_id = from}

\* the time the last ticket of the sender was created
LastCreation(from) ==
    LET ts == {tickets[i].created_at : i \in TicketsOf(from)}
    IN CHOOSE t \in ts : \A u \in ts : u <= t

\* the creation that opened the minute window the sender is in, after its first n
\* tickets: a creation more than 60 seconds after the window opened opens the next
RECURSIVE WindowOpenedAt(_, _)
WindowOpenedAt(from, n) ==
    IF n = 0 THEN NoTime
    ELSE LET w == WindowOpenedAt(from, n - 1)
         IN IF tickets[n].user_id # from THEN w
            ELSE IF w = NoTime \/ tickets[n].created_at - w > MinuteMs
                 THEN tickets[n].created_at
            ELSE w

\* the start request m of a sender that has created a ticket (and fewer than the
\* hourly maximum), with no login in progress, is handled
StartAfterCreation(m) ==
    /\ IsStartRequest(m)
    /\ TicketsOf(m.from) # {}
    /\ Cardinality(TicketsOf(m.from)) < HourMax
    /\ ~Has(adminLoginState, m.from)
    /\ PassesGuards(m)
    /\ Deliver(m, MaxRateMsgs)

IsAdminCommand(body) ==
    LET p == split(body)
    IN \/ p[1] \in {T_ban, T_unban, T_listban, T_export, T_logexport, T_databaseexport}
       \/ p[1] = T_admin /\ Len(p) >= 2 /\ p[2] \in {T_add, T_remove, T_list}

\* the sender has a login session or is a member of the admin allow-list
Authorized(from) ==
    \/ from \in adminSessions
    \/ \E a \in admins : normalize(a) = normalize(from)

\* the effect of the admin command m after this step
Executed(m) ==
    LET p == split(trim(m.body))
        onList(x) == \E a \in admins' : normalize(a) = normalize(x)
    IN /\ last'.route = "command"
       /\ ~HasKind(out', "admin_required")
       /\ CASE p[1] = T_ban -> normalize(p[2]) \in banned' /\ admins' = admins
            [] p[1] = T_unban -> normalize(p[2]) \notin banned' /\ admins' = admins
            [] p[1] = T_listban -> HasKind(out', "ban_list")
            [] p[1] = T_export -> HasKind(out', "export")
            [] p[1] = T_logexport -> HasKind(out', "logexport")
            [] p[1] = T_databaseexport -> HasKind(out', "databaseexport")
            [] p[1] = T_admin /\ p[2] = T_add -> onList(p[3]) /\ banned' = banned
            [] p[1] = T_admin /\ p[2] = T_remove -> ~onList(p[3]) /\ banned' = banned
            [] OTHER -> HasKind(out', "admin_list")

\* C11: a private admin command (/ban, /unban, /listban, /admin add|remove|list,
\* /export, /logexport, /databaseexport) that reaches command dispatch from a sender
\* with neither a login session nor allow-list membership gets only the fixed
\* rejection reply and changes neither the Ban Registry nor the allow-list; from a
\* sender with a session or with allow-list membership it is executed.
C11_AdminCommandsGated ==
    [][\A m \in AdminMsgs :
          (/\ IsAdminCommand(trim(m.body))
           /\ ~Has(adminLoginState, m.from)
           /\ PassesGuards(m)
           /\ Deliver(m, MaxAdminMsgs))
              => IF ~Authorized(m.from)
                 THEN /\ out' = <<[to |-> m.from, kind |-> "admin_required", ref |-> 0]>>
                      /\ banned' = banned
                      /\ admins' = admins
                 ELSE Executed(m)]_vars

\* a sender with a session that is no longer on the allow-list has banned a number
C11_Witness ==
    /\ last.type = "msg" /\ last.route = "command"
    /\ HasKind(out, "ban_done")
    /\ Priv(U1) \in adminSessions
    /\ admins = {}
    /\ U2 \in banned

\* the private arrivals of the sender in the last 60 seconds
ArrivalsInWindow(r, key) ==
    LET sum[i \in 0..RecentTicks] == IF i = 0 THEN 0 ELSE sum[i - 1] + r[key][i]
    IN sum[RecentTicks]

\* C12: when a private message of a sender that is not in the Ban Registry has been
\* handled and the sender has sent more than 10 private messages within the last
\* 60 seconds, the sender is in the Ban Registry.
C12_RollingWindowBan ==
    [][\A m \in SpamMsgs :
          (/\ SenderOf(m) \notin banned
           /\ Deliver(m, MaxSpamMsgs)
           /\ ArrivalsInWindow(recent', senderIdOf(m.from)) > SpamLimit)
              => SenderOf(m) \in banned']_vars

\* C13: a start request (/start or the greeting word) of a sender that has a
\* ConversationState leaves that state in place with its step, corpus, room and
\* problem unchanged.
C13_StartKeepsConversation ==
    [][\A m \in WizardMsgs :
          (/\ IsStartRequest(m)
           /\ Has(userStates, m.from)
           /\ ~Has(adminLoginState, m.from)
           /\ PassesGuards(m)
           /\ Deliver(m, MaxWizardMsgs))
              => /\ Has(userStates', m.from)
                 /\ userStates'[m.from].step = userStates[m.from].step
                 /\ userStates'[m.from].corpus = userStates[m.from].corpus
                 /\ userStates'[m.from].room = userStates[m.from].room
                 /\ userStates'[m.from].problemType = userStates[m.from].problemType]_vars

\* C14: after a private /stop of a sender that is not in the Ban Registry has been
\* handled, no ConversationState exists for the sender, whatever step the wizard was
\* in and whether or not a login is in progress.
C14_StopDiscardsConversation ==
    [][\A m \in InterceptMsgs :
          (/\ trim(m.body) = T_stop
           /\ ~endsWith(m.from, GUs)
           /\ SenderOf(m) \notin banned
           /\ Deliver(m, MaxInterceptMsgs))
              => ~Has(userStates', m.from)]_vars

\* C15: while an AdminLoginState exists for a private sender, every message of it
\* that passes the ban check and the spam detector is consumed by the login state
\* machine: no wizard is started or advanced, no handler is started and the message
\* is not dispatched as a command.
C15_LoginConsumesEveryMessage ==
    [][\A m \in InterceptMsgs :
          (/\ Has(adminLoginState, m.from)
           /\ PassesGuards(m)
           /\ Deliver(m, MaxInterceptMsgs))
              => /\ last'.route = "login"
                 /\ userStates' = userStates
                 /\ handlers' = handlers]_vars

\* C16: in state awaiting_password, a reply that together with the captured username
\* equals the configured credential pair adds the sender to the session set, removes
\* its AdminLoginState and its failed-attempt counter and makes it a member of the
\* admin allow-list; the Ban Registry is unchanged.
C16_LoginSuccess ==
    [][\A m \in LoginMsgs :
          (/\ Has(adminLoginState, m.from)
           /\ adminLoginState[m.from].step = "ask_password"
           /\ adminLoginState[m.from].username = adminCredentials.username
           /\ trim(m.body) = adminCredentials.password
           /\ PassesGuards(m)
           /\ Deliver(m, MaxLoginMsgs))
              => /\ m.from \in adminSessions'
                 /\ ~Has(adminLoginState', m.from)
                 /\ ~Has(failedLoginAttempts', normalize(m.from))
                 /\ \E a \in admins' : normalize(a) = normalize(m.from)
                 /\ banned' = banned]_vars

\* a sender has logged in
C16_Witness ==
    /\ last.type = "msg" /\ last.route = "login"
    /\ HasKind(out, "login_ok")
    /\ Priv(U1) \in adminSessions
    /\ Priv(U1) \in admins
    /\ ~Has(adminLoginState, Priv(U1))

\* C17: after every failed password reply, the third one that bans the sender
\* included, no AdminLoginState remains for the sender.
C17_FailureClearsLoginState ==
    [][\A m \in LoginMsgs :
          (/\ Deliver(m, MaxLoginMsgs)
           /\ (HasKind(out', "login_failed") \/ HasKind(out', "login_banned")))
              => ~Has(adminLoginState', m.from)]_vars

\* C18: every step that changes the status or the assigned admin of a stored ticket
\* sends a message about that ticket to the configured escalation channel.
C18_ChangeNotifiesChannel ==
    [][\A i \in 1..Len(tickets) :
          (/\ traineeGroupId # Null
           /\ \/ tickets'[i].status # tickets[i].status
              \/ tickets'[i].assigned_admin # tickets[i].assigned_admin)
              => \E j \in 1..Len(out') :
                    out'[j].to = traineeGroupId /\ out'[j].ref = i]_vars

\* m is the command cmd with the identity x as its number
CommandFor(m, cmd, x) ==
    LET p == split(trim(m.body))
    IN Len(p) >= 2 /\ p[1] = cmd /\ normalize(p[2]) = x

\* this step handled the third failed password reply of the sender of m since its
\* last successful login or login ban
ThirdFailure(m) ==
    /\ Has(failCount', m.from)
    /\ failCount'[m.from] = (IF Has(failCount, m.from) THEN failCount[m.from] ELSE 0) + 1
    /\ failCount'[m.from] % 3 = 0

\* C19: an identity enters the Ban Registry only by a /ban of an authorized sender, by
\* the spam detector or by the third failed login, and leaves it only by an /unban of
\* an authorized sender; a dispatched /ban of a banned identity and /unban of an
\* identity that is not banned leave the registry unchanged.
C19_RegistryFrame ==
    [][/\ \A x \in banned' \ banned :
            \E m \in RegistryMsgs :
                /\ Deliver(m, MaxRegistryMsgs)
                /\ banned' = banned \cup {x}
                /\ \/ CommandFor(m, T_ban, x) /\ Authorized(m.from)
                   \/ last'.route = "spam" /\ x = SenderOf(m)
                   \/ ThirdFailure(m) /\ x = SenderOf(m)
       /\ \A x \in banned \ banned' :
            \E m \in RegistryMsgs :
                /\ Deliver(m, MaxRegistryMsgs)
                /\ banned' = banned \ {x}
                /\ CommandFor(m, T_unban, x) /\ Authorized(m.from)
       /\ \A m \in RegistryMsgs : \A x \in {U1, A1} :
            (/\ \/ CommandFor(m, T_ban, x) /\ x \in banned
                \/ CommandFor(m, T_unban, x) /\ x \notin banned
             /\ ~Has(adminLoginState, m.from)
             /\ PassesGuards(m)
             /\ Deliver(m, MaxRegistryMsgs))
                => banned' = banned]_vars

\* the warnings among the messages sent
Warnings(o) == {i \in 1..Len(o) : o[i].kind = "spam_warning"}

\* C20: the private message that takes the sender's count of the counting window
\* above 10 bans the sender and is passed to nothing else: no conversation, login
\* state, session, allow-list entry, failed-login counter, ticket or handler changes
\* and nothing but the warning is sent.  The warning is sent at most once per counting
\* window: not in a window whose warning has been sent, also after an unban.
C20_SpamStopsAndWarnsOnce ==
    [][\A m \in RegistryMsgs :
          LET sid == senderIdOf(m.from)
          IN (/\ ~endsWith(m.from, GUs)
              /\ SenderOf(m) \notin banned
              /\ Deliver(m, MaxRegistryMsgs))
                 => /\ messageSpam'[sid].count > 10
                         => /\ last'.route = "spam"
                            /\ SenderOf(m) \in banned'
                            /\ UNCHANGED <<userStates, adminLoginState, adminSessions, admins,
                                           failedLoginAttempts, tickets, handlers, userTickets>>
                            /\ \A i \in 1..Len(out') : out'[i].kind = "spam_warning"
                    /\ Cardinality(Warnings(out')) <= 1
                    /\ (Has(messageSpam, sid)
                          /\ messageSpam'[sid].lastReset = messageSpam[sid].lastReset
                          /\ messageSpam[sid].warned)
                         => (Warnings(out') = {} /\ messageSpam'[sid].warned)]_vars

\* a sender banned and warned by the spam detector and unbanned in the same window
\* has exceeded the threshold again and got no second warning
C20_Witness ==
    /\ last.type = "msg" /\ last.route = "spam"
    /\ out = <<>>
    /\ U1 \in banned
    /\ messageSpam[U1].warned
    /\ messageSpam[U1].count > 11

\* C21: a /login of a private sender whose login is in progress supersedes it: the
\* sender's AdminLoginState becomes a fresh awaiting_username state, the text /login
\* is not stored as the username and is not checked as the password (no failed
\* attempt is counted, nobody is banned).
C21_LoginSupersedesLogin ==
    [][\A m \in InterceptMsgs :
          (/\ trim(m.body) = T_login
           /\ Has(adminLoginState, m.from)
           /\ PassesGuards(m)
           /\ Deliver(m, MaxInterceptMsgs))
              => /\ Has(adminLoginState', m.from)
                 /\ adminLoginState'[m.from] = [step |-> "ask_username", username |-> Null]
                 /\ failedLoginAttempts' = failedLoginAttempts
                 /\ banned' = banned]_vars

\* C22: under every interleaving of the handlers of the messages of one sender at
\* their awaits, one run of the wizard stores at most one ticket.
C22_OneTicketPerRun == Len(tickets) <= 1

\* this step advanced the wizard of address x: its step grew, or its completion began
Advanced(x) ==
    \/ /\ Has(userStates, x) /\ Has(userStates', x)
       /\ userStates'[x].step > userStates[x].step
    \/ \E h \in HandlerIds :
          /\ handlers[h].pc = "idle"
          /\ handlers'[h].pc = "ct_insert"
          /\ handlers'[h].us.userPhone = x

\* C23: a wizard is advanced or completed only by the handling of a private message
\* of its own requester, who is not in the Ban Registry, when the message is no
\* greeting, no login is in progress and no command matched it.  So a message
\* dispatched as a command is never applied as a wizard reply as well, and a message
\* from a group advances no wizard.
C23_WizardAdvancedOnlyByReply ==
    [][\A x \in DOMAIN userStates :
          Advanced(x)
              => \E m \in RouteMsgs :
                    /\ Deliver(m, MaxRouteMsgs)
                    /\ m.from = x
                    /\ ~endsWith(m.from, GUs)
                    /\ SenderOf(m) \notin banned
                    /\ toLowerCase(trim(m.body)) # T_salam
                    /\ ~Has(adminLoginState, m.from)
                    /\ ~handleCommands(St, m, trim(m.body), FALSE).handled
                    /\ last'.route = "wizard"]_vars

\* the requester has moved to the free-text step and a private reply that is no
\* command has begun the completion
C23_Witness ==
    /\ last.type = "msg" /\ last.route = "wizard"
    /\ \E h \in HandlerIds :
          /\ handlers[h].pc = "ct_insert"
          /\ handlers[h].us.step = 4
          /\ handlers[h].us.problemType = <<"1", "7">>

\* handler h has been started by this step as a completion of the conversation of
\* address x
CompletionStarted(h, x) ==
    /\ handlers[h].pc = "idle"
    /\ handlers'[h].pc = "ct_insert"
    /\ handlers'[h].us.userPhone = x

\* C24: a reply to the problem choice that is key 16 moves the wizard to the
\* free-text step and starts no completion; a key in 1..15 starts the completion with
\* the label of that catalog entry; every other reply is answered with the re-prompt,
\* leaves the step at the problem choice and starts no completion.
C24_ProblemChoice ==
    [][\A m \in RaceMsgs :
          LET choice == trim(m.body)
          IN (/\ Has(userStates, m.from)
              /\ userStates[m.from].step = 3
              /\ PassesGuards(m)
              /\ ~handleCommands(St, m, choice, FALSE).handled
              /\ Deliver(m, MaxRaceMsgs))
                 => /\ choice = <<"1", "6">>
                         => /\ userStates'[m.from].step = 4
                            /\ handlers' = handlers
                    /\ choice \in CatalogKeys
                         => \E h \in HandlerIds :
                               /\ CompletionStarted(h, m.from)
                               /\ handlers'[h].us.problemType = problemTypesExtended[choice]
                    /\ choice \notin DOMAIN problemTypesExtended
                         => /\ HasKind(out', "choice_invalid")
                            /\ userStates'[m.from].step = 3
                            /\ handlers' = handlers]_vars

\* positions i..j of t are a maximal run of digits
IsDigitRun(t, i, j) ==
    /\ \A k \in i..j : t[k] \in Digits
    /\ (i = 1 \/ t[i - 1] \notin Digits)
    /\ (j = Len(t) \/ t[j + 1] \notin Digits)

\* the rules of the room for corpus c, on the text t
RoomRules(c, t) ==
    /\ Len(t) <= 10
    /\ t # <<>> /\ t[1] \in Digits
    /\ \E j \in 1..Len(t) :
          /\ IsDigitRun(t, 1, j)
          /\ LET main == decimal(SubSeq(t, 1, j))
                 trail == SubSeq(t, j + 1, Len(t))
             IN /\ c = <<"1">> => main \in 101..543
                /\ c = <<"2">> => main \in 1101..1644
                /\ \A k \in 1..Len(trail) :
                      trail[k] \in {"A", "B", "C", "D", "E", " "} \cup Digits
                /\ \A a \in 1..Len(trail) : \A b \in a..Len(trail) :
                      IsDigitRun(trail, a, b) => decimal(SubSeq(trail, a, b)) \in 1..13

C26_FailedCompletion ==
    [][\A h \in HandlerIds :
          LET x == handlers[h].us.userPhone
          IN /\ (last'.type = "reject" /\ last'.h = h)
                    => /\ tickets' = tickets
                       /\ userTickets' = userTickets
                       /\ ~Has(userStates', x)
                       /\ \E i \in 1..Len(out') :
                             out'[i].to = handlers[h].from /\ out'[i].kind = "ticket_failed"
                       /\ handlers'[h].pc = "idle"
             /\ Resumed(h, "ct_notify") => ~Has(userStates', x)]_vars

\* a completion has failed at the INSERT: nothing is stored, the requester may start
\* at once
C26_Witness ==
    /\ last.type = "reject"
    /\ HasKind(out, "ticket_failed")
    /\ tickets = <<>>
    /\ ~Has(userStates, Priv(U1))
    /\ canCreateTicket(St, Priv(U1)).allowed

\* this step handled message m and the wizard step it was routed to threw
WizardStepFailed(m) == DeliverThrows(m, MaxErrorMsgs) /\ last'.route = "wizard_error"

\* C27: a processing failure ends the wizard only when more than 3 failures have
\* occurred in the conversation; at the first, second and third failure the
\* ConversationState is kept with its step and collected fields unchanged.
C27_TerminatedAfterMoreThanThreeFailures ==
    [][\A m \in ErrorMsgs :
          WizardStepFailed(m)
              => /\ ~Has(userStates', m.from) => ticketErrors'[m.from] > 3
                 /\ ticketErrors'[m.from] <= 3
                      => /\ Has(userStates', m.from)
                         /\ userStates'[m.from].step = userStates[m.from].step
                         /\ userStates'[m.from].corpus = userStates[m.from].corpus
                         /\ userStates'[m.from].room = userStates[m.from].room
                         /\ userStates'[m.from].problemType = userStates[m.from].problemType]_vars

\* the replies that tell a sender of a failure
ErrorReplies == {"wizard_error", "wizard_terminated", "ticket_failed", "error"}

\* C28: whenever the handling of a message of a sender that is not banned fails with
\* an unexpected error at a router step (login interception, command dispatch,
\* wizard continuation), an error reply to the sender is attempted.
C28_FailureNotifiesSender ==
    [][\A m \in ErrorMsgs :
          DeliverThrows(m, MaxErrorMsgs)
              => \E i \in 1..Len(out') :
                    out'[i].to = m.from /\ out'[i].kind \in ErrorReplies]_vars

\* the text begins with one of the admin-only command prefixes
BeginsWithAdminCommand(body) == \E cmd \in adminCommandsInGroup : startsWith(body, cmd)

\* C29: a message from a group whose text begins with one of the admin-only command
\* prefixes gets no reply and changes no state of the program.
C29_GroupAdminCommandsSilent ==
    [][\A m \in GroupCmdMsgs :
          (/\ endsWith(m.from, GUs)
           /\ BeginsWithAdminCommand(trim(m.body))
           /\ Deliver(m, MaxGroupMsgs))
              => (out' = <<>> /\ UNCHANGED progVars)]_vars

\* the replies by which /assign is rejected
AssignRejections ==
    {"not_found", "assign_solved", "assign_long_term", "assign_already_yours",
     "assign_taken", "assign_busy"}

\* C30: a private /assign <id> makes the requester the assigned admin of the ticket
\* only when, as the assignment is written, the ticket exists, is open, has no
\* assigned admin and the requester holds no other open assigned ticket; when the
\* ticket read by the command is missing, solved, long_term or assigned, the command
\* is rejected and writes nothing; no step of /assign changes the status of a ticket.
C30_AssignOnlyWhenFree ==
    [][\A h \in HandlerIds :
          LET id == handlers[h].id
              a == handlers[h].admin
          IN /\ (\E pc \in {"as_active", "as_ticket", "as_update"} : Resumed(h, pc))
                    => /\ Len(tickets') = Len(tickets)
                       /\ \A i \in 1..Len(tickets) : tickets'[i].status = tickets[i].status
                       /\ tickets' # tickets
                            => /\ HasTicket(St, id)
                               /\ tickets[id].status = "open"
                               /\ tickets[id].assigned_admin = Null
                               /\ activeTickets(St, a) = {}
                               /\ tickets' = [tickets EXCEPT ![id].assigned_admin = a,
                                                              ![id].assigned_admin_name =
                                                                  handlers[h].name]
             /\ (/\ Resumed(h, "as_ticket")
                 /\ \/ ~HasTicket(St, id)
                    \/ tickets[id].status \in {"solved", "long_term"}
                    \/ tickets[id].assigned_admin # Null)
                    => /\ tickets' = tickets
                       /\ handlers'[h].pc = "idle"
                       /\ \E i \in 1..Len(out') :
                             out'[i].to = handlers[h].from /\ out'[i].kind \in AssignRejections]_vars

\* the replies by which /noassign is rejected
NoAssignRejections == {"not_found", "noassign_not_yours", "noassign_solved"}

\* C31: a private /noassign <id> from admin X clears the assigned admin only of a
\* ticket that, as the change is written, is open and assigned to X; when the ticket
\* read by the command is missing, assigned to someone else, unassigned or not open,
\* the command is rejected and writes nothing; no step of /noassign changes the
\* status of a ticket.
C31_NoAssignOnlyOwnOpenTicket ==
    [][\A h \in HandlerIds :
          LET id == handlers[h].id
              a == handlers[h].admin
          IN /\ (\E pc \in {"na_get", "na_update"} : Resumed(h, pc))
                    => /\ Len(tickets') = Len(tickets)
                       /\ \A i \in 1..Len(tickets) : tickets'[i].status = tickets[i].status
                       /\ tickets' # tickets
                            => /\ HasTicket(St, id)
                               /\ tickets[id].status = "open"
                               /\ tickets[id].assigned_admin = a
                               /\ tickets' = [tickets EXCEPT ![id].assigned_admin = Null,
                                                              ![id].assigned_admin_name = Null]
             /\ (/\ Resumed(h, "na_get")
                 /\ \/ ~HasTicket(St, id)
                    \/ tickets[id].assigned_admin # a
                    \/ tickets[id].status # "open")
                    => /\ tickets' = tickets
                       /\ handlers'[h].pc = "idle"
                       /\ \E i \in 1..Len(out') :
                             out'[i].to = handlers[h].from /\ out'[i].kind \in NoAssignRejections]_vars

\* this step resumed handler h at position pc, and its notification of the escalation
\* channel failed
NotifyFailed(h, pc) == last'.type = "notify_error" /\ last'.h = h /\ last'.pc = pc

\* C32: when the notification of the escalation channel fails after the UPDATE of
\* /assign or /noassign, the change stays: the assigned admin of the ticket is the
\* requester after /assign and null after /noassign, and no other ticket is touched.
C32_FailedNotificationKeepsChange ==
    [][\A h \in HandlerIds :
          LET hd == handlers[h]
          IN /\ (NotifyFailed(h, "as_update") /\ HasTicket(St, hd.id))
                    => tickets' = [tickets EXCEPT ![hd.id].assigned_admin = hd.admin,
                                                   ![hd.id].assigned_admin_name = hd.name]
             /\ (NotifyFailed(h, "na_update") /\ HasTicket(St, hd.id))
                    => tickets' = [tickets EXCEPT ![hd.id].assigned_admin = Null,
                                                   ![hd.id].assigned_admin_name = Null]]_vars

\* the notification of an /assign of ticket 1 has failed: the requester was sent the
\* confirmation and the error text, and is the assigned admin of the ticket
C32_Witness ==
    /\ last.type = "notify_error" /\ last.pc = "as_update"
    /\ HasKind(out, "assign_done") /\ HasKind(out, "assign_error")
    /\ tickets[1].assigned_admin \in {A1, A2}

\* the replies of /assign and /noassign to the requester
AssignmentErrors == {"assign_error", "noassign_error"}
AssignmentConfirmations == {"assign_done", "noassign_done"}

\* C33: a step of /assign or /noassign that sends the error text of the command to
\* the requester has written nothing to the tickets table; a step that sends the
\* confirmation has written the change.
C33_ErrorMeansUnchanged ==
    [][\A h \in HandlerIds :
          LET hd == handlers[h]
              sent(kinds) == \E i \in 1..Len(out') :
                                 out'[i].to = hd.from /\ out'[i].kind \in kinds
          IN (last'.h = h /\ hd.pc \in AssignPcs \cup NoAssignPcs)
                => /\ sent(AssignmentErrors) => tickets' = tickets
                   /\ (sent(AssignmentConfirmations) /\ HasTicket(St, hd.id))
                        => tickets'[hd.id].assigned_admin =
                               (IF hd.pc \in AssignPcs THEN hd.admin ELSE Null)]_vars

\* C34: an /assign is confirmed to its requester only for a ticket that nobody else
\* holds when the assignment is written: of two requesters whose /assign handlers
\* for one unassigned ticket interleave, only one is sent the confirmation, and
\* that one is the assigned admin afterwards.
C34_OneConfirmationPerTicket ==
    [][\A h \in HandlerIds :
          LET hd == handlers[h]
          IN (/\ last'.h = h /\ hd.pc = "as_update"
              /\ HasTicket(St, hd.id)
              /\ \E i \in 1..Len(out') : out'[i].to = hd.from /\ out'[i].kind = "assign_done")
                 => /\ tickets[hd.id].assigned_admin \in {Null, hd.admin}
                    /\ tickets'[hd.id].assigned_admin = hd.admin]_vars

\* C35: the assigned admin of a ticket is an identity that holds a login session or
\* is on the allow-list.
C35_AssignedAdminIsAuthorized ==
    \A i \in 1..Len(tickets) :
        tickets[i].assigned_admin # Null
            => \E x \in adminSessions \cup admins : normalize(x) = tickets[i].assigned_admin

\* C36: in every reachable state, whatever the interleaving of the lifecycle
\* handlers, a ticket with status open has no solved_at and no solution.
C36_OpenHasNoSolution ==
    \A i \in 1..Len(tickets) :
        tickets[i].status = "open"
            => tickets[i].solved_at = NoTime /\ tickets[i].solution = Null

\* ticket 1 has been reopened by /unsolved while another lifecycle handler is
\* suspended at a storage await
C36_Witness ==
    /\ last.type = "step" /\ last.pc = "un_update"
    /\ tickets[1].status = "open"
    /\ \E h \in HandlerIds : handlers[h].pc \in {"ms_update", "lt_update", "as_update", "na_update"}

\* C37: in every reachable state, also when a /noassign handler interleaves with a
\* /solved handler for the same ticket, a ticket with status solved has an assigned
\* admin, a solution and a solved_at.
C37_SolvedIsComplete ==
    \A i \in 1..Len(tickets) :
        tickets[i].status = "solved"
            => /\ tickets[i].assigned_admin # Null
               /\ tickets[i].solution # Null
               /\ tickets[i].solved_at # NoTime

\* C38: in every reachable state the assigned admin and the assigned admin's display
\* name of a ticket are both null or both set.
C38_AdminAndNameTogether ==
    \A i \in 1..Len(tickets) :
        (tickets[i].assigned_admin = Null) <=> (tickets[i].assigned_admin_name = Null)

\* the entry of key k in the map f, Null when there is none
Entry(f, k) == IF Has(f, k) THEN f[k] ELSE Null

\* m is a private text that is neither a command nor a greeting
IsWizardReply(m) ==
    /\ ~endsWith(m.from, GUs)
    /\ ~startsWith(trim(m.body), Slash)
    /\ toLowerCase(trim(m.body)) # T_salam

\* the sender of m was banned by the spam detector and has been unbanned: its
\* warning flag is set and it is not in the Ban Registry
UnbannedAfterSpam(m) ==
    /\ Has(messageSpam, senderIdOf(m.from))
    /\ messageSpam[senderIdOf(m.from)].warned
    /\ ~isBanned(St, SenderOf(m))

\* C39: a step after which an identity is in the Ban Registry, be it the step that
\* bans it (/ban, the spam detector, the third failed login) or a step while it is
\* banned, leaves the conversation and the login state of the identity as they
\* were; and when an identity that holds a conversation has been unbanned, its next
\* private text that is no command is handled by the wizard on that conversation.
C39_BanKeepsConversation ==
    [][/\ \A d \in banned' :
            /\ Entry(userStates', Priv(d)) = Entry(userStates, Priv(d))
            /\ Entry(adminLoginState', Priv(d)) = Entry(adminLoginState, Priv(d))
       /\ \A m \in UnbanMsgs :
            (/\ IsWizardReply(m)
             /\ UnbannedAfterSpam(m)
             /\ Has(userStates, m.from)
             /\ Deliver(m, MaxUnbanMsgs))
                => /\ last'.route = "wizard"
                   /\ userStates' = continueTicket(St, m).userStates]_vars

\* C40: when an identity that the spam detector banned has been unbanned and sends a
\* private message less than 60 seconds after the start of its counting window, the
\* message is not processed (no conversation, login state, ticket or handler
\* changes), the identity is in the Ban Registry again, and nothing is sent.
C40_UnbannedSpammerBannedAgain ==
    [][\A m \in UnbanMsgs :
          (/\ ~endsWith(m.from, GUs)
           /\ UnbannedAfterSpam(m)
           /\ nowMs - messageSpam[senderIdOf(m.from)].lastReset < SpamWindowMs
           /\ Deliver(m, MaxUnbanMsgs))
              => /\ banned' = banned \cup {SenderOf(m)}
                 /\ out' = <<>>
                 /\ last'.route = "spam"
                 /\ UNCHANGED <<userStates, adminLoginState, adminSessions, admins,
                                failedLoginAttempts, userTickets, tickets, handlers>>]_vars

\* the spam detector has banned the sender a second time, half a minute after the
\* window began, without a warning: the sender had been warned and unbanned
C40_Witness ==
    /\ last.type = "msg" /\ last.route = "spam"
    /\ out = <<>>
    /\ now = 1
    /\ U1 \in banned
    /\ messageSpam[U1].warned
    /\ messageSpam[U1].count > SpamLimit + 1

====
